---- MODULE Spec2Model ----
(***************************************************************************)
(* The customer-support agent of src/src/app/page.tsx: the backend POST    *)
(* handler (one invoke_agent span, a reasoning chat span, one execute_tool *)
(* span per requested tool, an optional synthesis chat span), the mock     *)
(* reasoning stage generateMockLLMResponse and the mock synthesis stage.   *)
(*                                                                         *)
(* A turn is a sequential process; its steps are cut at the awaits of the  *)
(* handler (the simulated delays and the awaits of the nested startSpan    *)
(* calls).  Every local of POST is a per-turn variable (a function over    *)
(* Turns), as each request has its own closure.                            *)
(*                                                                         *)
(* Strings are modelled by the occurrences they contain of the words the   *)
(* code looks for: a message is the set of vocabulary tokens occurring in  *)
(* it, a response text is the sequence of the canned pieces it is built    *)
(* from.  toLowerCase and includes are computed on these, so that case and *)
(* substring overlap ("tracking" contains "track") are part of the model.  *)
(***************************************************************************)
EXTENDS Integers, Sequences, FiniteSets, TLC

\* ------------------------------------------------------------------ bounds

\* Messages of the pure-function specification hold at most this many tokens.
MaxKeywords == 2

\* Messages of the turn specification hold at most this many tokens (the demo
\* phrases of the UI hint panel are added to them).
TurnKeywords == 1

\* The synthesis stage on its own is given at most this many tool names.
MaxToolsUsed == 2

\* An arbitrary reasoning stage requests at most this many tool calls.
MaxToolCalls == 2

\* ----------------------------------------------------------------- strings

\* The lower-case words generateMockLLMResponse looks for.
Keywords ==
  { "refund", "process", "start", "initiate", "give me", "want",
    "inventory", "in stock", "available", "check", "stock", "availability",
    "callback", "call me back", "call me", "schedule", "call", "phone", "number",
    "account", "profile", "membership", "my", "info",
    "order", "status", "track", "where", "tracking", "shipment",
    "return", "exchange", "policy", "refund policy", "how",
    "escalate", "manager", "supervisor", "speak to", "ticket", "complex",
    "thank", "hello", "hi" }

\* Capitalised occurrences, as in the demo phrases ("Where is my order?").
Capitalised ==
  { "Where", "Check", "Process", "Escalate", "Hi", "Call me back" }

\* The multi-word trigger phrases the tools guide lists.
GuidePhrases ==
  { "process refund", "start refund", "I want a refund", "give me a refund",
    "check stock", "schedule call", "phone me", "my info",
    "order status", "where is my order", "how to return" }

Vocabulary == Keywords \cup Capitalised \cup GuidePhrases

\* String.prototype.toLowerCase on one token.
lowerOf(tok) ==
  CASE tok = "Where" -> "where"
    [] tok = "Check" -> "check"
    [] tok = "Process" -> "process"
    [] tok = "Escalate" -> "escalate"
    [] tok = "Hi" -> "hi"
    [] tok = "Call me back" -> "call me back"
    [] tok = "Resolved" -> "resolved"
    [] tok = "SOLVED" -> "solved"
    [] tok = "I want a refund" -> "i want a refund"
    [] OTHER -> tok

\* The searched words that occur inside a token (case-sensitive), the token
\* itself included.
Substrings(tok) ==
  CASE tok = "in stock" -> {"in stock", "stock"}
    [] tok = "callback" -> {"callback", "call"}
    [] tok = "call me" -> {"call me", "call"}
    [] tok = "call me back" -> {"call me back", "call me", "call"}
    [] tok = "tracking" -> {"tracking", "track"}
    [] tok = "refund policy" -> {"refund policy", "refund", "policy"}
    [] tok = "shipment" -> {"shipment", "hi"}
    [] tok = "membership" -> {"membership", "hi"}
    [] tok = "resolved" -> {"resolved", "solved"}
    [] tok = "process refund" -> {"process refund", "process", "refund"}
    [] tok = "start refund" -> {"start refund", "start", "refund"}
    [] tok = "I want a refund" -> {"I want a refund", "want", "refund"}
    [] tok = "i want a refund" -> {"i want a refund", "want", "refund"}
    [] tok = "give me a refund" -> {"give me a refund", "give me", "refund"}
    [] tok = "check stock" -> {"check stock", "check", "stock"}
    [] tok = "schedule call" -> {"schedule call", "schedule", "call"}
    [] tok = "phone me" -> {"phone me", "phone"}
    [] tok = "my info" -> {"my info", "my", "info"}
    [] tok = "order status" -> {"order status", "order", "status"}
    [] tok = "where is my order" -> {"where is my order", "where", "my", "order"}
    [] tok = "how to return" -> {"how to return", "how", "return"}
    [] OTHER -> {tok}

\* A string as the set of tokens occurring in it: toLowerCase and includes.
toLowerCase(s) == { lowerOf(tok) : tok \in s }

includes(s, word) == \E tok \in s : word \in Substrings(tok)

\* --------------------------------------------------------------- messages

RECURSIVE SubsetsUpTo(_, _)
SubsetsUpTo(S, k) ==
  IF k = 0 THEN {{}}
  ELSE LET prev == SubsetsUpTo(S, k - 1)
       IN  prev \cup { s \cup {x} : s \in prev, x \in S }

\* The request field `message`: a string, or undefined when the body has none.
StringMessage(toks) == [defined |-> TRUE, toks |-> toks]
UndefinedMessage == [defined |-> FALSE, toks |-> {}]

\* The phrases of the UI hint panel and of the changelog's demo flow.
DemoMessages ==
  { StringMessage({"Where", "my", "order"}),       \* "Where is my order?"
    StringMessage({"Check", "my", "account"}),     \* "Check my account"
    StringMessage({"Process", "refund"}),          \* "Process a refund"
    StringMessage({"return", "policy"}),           \* "What's your return policy?"
    StringMessage({"in stock", "hi"}),             \* "Is this in stock?"
    StringMessage({"call me back"}),               \* "Can you call me back?"
    StringMessage({"Escalate", "hi"}),             \* "Escalate this issue"
    StringMessage({"Hi"}) }                        \* "Hi"

TurnMessages ==
  DemoMessages
    \cup { StringMessage(toks) : toks \in SubsetsUpTo(Vocabulary, TurnKeywords) }
    \cup { UndefinedMessage }

\* ------------------------------------------------------------------- texts

\* A response text is a sequence of pieces; these are the fragments of the
\* resolution vocabulary ("resolved", "solved", any case) each piece holds.
\* No canned string of the source holds one; the texts of an arbitrary
\* reasoning or synthesis stage may.
PieceFragments(piece) ==
  CASE piece = "llm: Your issue is Resolved." -> {"Resolved"}
    [] piece = "llm: we solved it" -> {"solved"}
    [] OTHER -> {}

TextFragments(text) == UNION { PieceFragments(text[i]) : i \in DOMAIN text }

\* finalResponse.toLowerCase().includes(word)
textIncludes(text, word) == includes(toLowerCase(TextFragments(text)), word)

\* ------------------------------------------------------------------ random

\* The values Math.floor(Math.random() * n) is sampled at: both ends of 0..n-1.
Draw(n) == {0, n - 1}

\* An index into a four-element array of canned sentences.
DrawIndex == 0 .. 3

\* ------------------------------------------------------------------- tools

\* The `tools` array of POST: name |-> description.
tools ==
  [ search_knowledge_base |-> "Search company knowledge base for answers",
    create_ticket |-> "Create a support ticket for complex issues",
    check_order_status |-> "Look up customer order information",
    get_account_info |-> "Retrieve customer account details and membership status",
    process_refund |-> "Process a refund for an order or transaction",
    check_inventory |-> "Check product availability and stock levels",
    schedule_callback |-> "Schedule a callback with support team" ]

ToolNames == DOMAIN tools

\* tools.find(t => t.name === name)?.description || ''
toolDescription(name) == IF name \in ToolNames THEN tools[name] ELSE ""

\* JSON.stringify of an object, and JSON.parse of a string: a string that is
\* not well-formed JSON makes JSON.parse throw.
JSONstringify(obj) == [wellFormed |-> TRUE, value |-> obj]
MalformedJSON == [wellFormed |-> FALSE, value |-> <<>>]

ToolCall(name, obj) == [name |-> name, arguments |-> JSONstringify(obj)]

\* ---------------------------------------------------------- reasoning stage

\* The seven keyword rules of generateMockLLMResponse, on the lowered message.
Rule1(lm) ==
  includes(lm, "refund")
    /\ ( includes(lm, "process") \/ includes(lm, "start") \/ includes(lm, "initiate")
         \/ includes(lm, "give me") \/ includes(lm, "want") )

Rule2(lm) ==
  \/ includes(lm, "inventory")
  \/ includes(lm, "in stock")
  \/ includes(lm, "available")
  \/ (includes(lm, "check") /\ includes(lm, "stock"))
  \/ includes(lm, "availability")

Rule3(lm) ==
  \/ includes(lm, "callback")
  \/ includes(lm, "call me back")
  \/ includes(lm, "call me")
  \/ (includes(lm, "schedule") /\ includes(lm, "call"))
  \/ (includes(lm, "phone") /\ ~includes(lm, "number"))

Rule4(lm) ==
  \/ includes(lm, "account")
  \/ includes(lm, "profile")
  \/ includes(lm, "membership")
  \/ (includes(lm, "my") /\ includes(lm, "info"))

Rule5(lm) ==
  \/ ( includes(lm, "order")
       /\ ( includes(lm, "status") \/ includes(lm, "track")
            \/ includes(lm, "where") \/ includes(lm, "check") ) )
  \/ includes(lm, "tracking")
  \/ includes(lm, "shipment")

Rule6(lm) ==
  \/ includes(lm, "return")
  \/ includes(lm, "exchange")
  \/ includes(lm, "policy")
  \/ includes(lm, "refund policy")
  \/ (includes(lm, "how") /\ includes(lm, "return"))

Rule7(lm) ==
  \/ includes(lm, "escalate")
  \/ includes(lm, "manager")
  \/ includes(lm, "supervisor")
  \/ includes(lm, "speak to")
  \/ includes(lm, "ticket")
  \/ includes(lm, "complex")

\* Mutant: the inventory rule is tested before the refund rule.
MatchedRule_InventoryFirst(lm) ==
  IF Rule2(lm) THEN 2
  ELSE IF Rule1(lm) THEN 1
  ELSE IF Rule3(lm) THEN 3
  ELSE IF Rule4(lm) THEN 4
  ELSE IF Rule5(lm) THEN 5
  ELSE IF Rule6(lm) THEN 6
  ELSE IF Rule7(lm) THEN 7
  ELSE 0

\* The if / else-if chain: the number of the first rule that matches, 0 when
\* none does.
MatchedRule(lm) ==
  IF Rule1(lm) THEN 1
  ELSE IF Rule2(lm) THEN 2
  ELSE IF Rule3(lm) THEN 3
  ELSE IF Rule4(lm) THEN 4
  ELSE IF Rule5(lm) THEN 5
  ELSE IF Rule6(lm) THEN 6
  ELSE IF Rule7(lm) THEN 7
  ELSE 0

\* The body of the branch taken: its tool call and draft text.  The default
\* branch draws one of four canned drafts (index r) and overrides it for
\* thanks and greetings.
MockDecision(message, r) ==
  LET lm == toLowerCase(message.toks)
      k == MatchedRule(lm)
      use(name, obj, text) ==
        [shouldUseTool |-> TRUE, toolCalls |-> <<ToolCall(name, obj)>>,
         responseText |-> <<text>>]
  IN  CASE k = 1 ->
        use("process_refund", [orderId |-> "ORD-12345", amount |-> "49.99"],
            "I can process that refund for you right away.")
      [] k = 2 ->
        use("check_inventory", [productId |-> "PROD-456", sku |-> "SKU-ABC123"],
            "Let me check if that item is in stock.")
      [] k = 3 ->
        use("schedule_callback", [phone |-> "555-0123", preferredTime |-> "tomorrow 2pm"],
            "I can schedule a callback for you.")
      [] k = 4 ->
        use("get_account_info", [customerId |-> "CUST-67890"],
            "Let me pull up your account information.")
      [] k = 5 ->
        use("check_order_status", [orderId |-> "ORD-12345"],
            "Let me check your order status for you.")
      [] k = 6 ->
        use("search_knowledge_base", [query |-> "return policy refund process"],
            "Let me look up our return policy for you.")
      [] k = 7 ->
        use("create_ticket",
            [subject |-> message.toks, priority |-> "high", category |-> "escalation"],
            "This seems like a complex issue. Let me create a ticket for you.")
      [] OTHER ->
        [shouldUseTool |-> FALSE, toolCalls |-> <<>>,
         responseText |->
           IF includes(lm, "thank") THEN
             <<"You're very welcome! Is there anything else I can help you with today?">>
           ELSE IF includes(lm, "hello") \/ includes(lm, "hi") THEN
             <<"Hello! Welcome to customer support. How can I assist you today?">>
           ELSE
             << <<"I'd be happy to help you with that! Let me provide you with some information.",
                  "Thank you for reaching out. Here's what I can tell you about your question.",
                  "I understand your concern. Let me help you resolve this issue.",
                  "That's a great question! I'll do my best to provide you with a helpful answer.">>[r + 1] >>]

\* The LLMResponse record: tool_calls is undefined unless a rule matched.
LLMResponse(content, hasToolCalls, toolCalls, promptTokens, completionTokens) ==
  [content |-> content,
   has_tool_calls |-> hasToolCalls,
   tool_calls |-> toolCalls,
   prompt_tokens |-> promptTokens,
   completion_tokens |-> completionTokens,
   total_tokens |-> promptTokens + completionTokens]

\* Mutant: the branch taken requests its tool twice.
generateMockLLMResponse_TwoCalls(message, history, r, rp, rc) ==
  LET d == MockDecision(message, r)
  IN  LLMResponse(d.responseText, d.shouldUseTool,
                  IF d.shouldUseTool THEN d.toolCalls \o d.toolCalls ELSE <<>>,
                  50 + rp, 20 + rc)

\* Mutant: once the conversation has a history, no tool is requested.
generateMockLLMResponse_HistoryAware(message, history, r, rp, rc) ==
  LET d == MockDecision(message, r)
  IN  LLMResponse(d.responseText, d.shouldUseTool /\ history = <<>>,
                  IF d.shouldUseTool /\ history = <<>> THEN d.toolCalls ELSE <<>>,
                  50 + rp, 20 + rc)

\* generateMockLLMResponse(message, _history) with its three random draws:
\* r the default draft, rp and rc the prompt and completion token draws.
\* The body never reads _history.
generateMockLLMResponse(message, history, r, rp, rc) ==
  LET d == MockDecision(message, r)
  IN  LLMResponse(d.responseText, d.shouldUseTool,
                  IF d.shouldUseTool THEN d.toolCalls ELSE <<>>,
                  50 + rp, 20 + rc)

\* ---------------------------------------------------------- synthesis stage

\* generateFollowUpResponse: the first name of a fixed list found in toolsUsed.
SeqIncludes(seq, x) == \E i \in DOMAIN seq : seq[i] = x

\* Mutant: the follow-up is that of the tool invoked first.
generateFollowUpResponse_FirstInvoked(used) ==
  IF used = <<>> THEN "followup: I hope this information helps!"
  ELSE CASE used[1] = "check_order_status" -> "followup: Your order is on its way!"
         [] used[1] = "get_account_info" -> "followup: I've retrieved your account information."
         [] used[1] = "process_refund" -> "followup: Your refund has been initiated successfully!"
         [] used[1] = "check_inventory" -> "followup: I've checked our inventory for that item."
         [] used[1] = "schedule_callback" -> "followup: Your callback has been scheduled successfully!"
         [] used[1] = "search_knowledge_base" -> "followup: I've found the relevant policy information for you."
         [] used[1] = "create_ticket" -> "followup: I've created a priority ticket for your issue"
         [] OTHER -> "followup: I hope this information helps!"

generateFollowUpResponse(used) ==
  IF SeqIncludes(used, "check_order_status") THEN "followup: Your order is on its way!"
  ELSE IF SeqIncludes(used, "get_account_info") THEN "followup: I've retrieved your account information."
  ELSE IF SeqIncludes(used, "process_refund") THEN "followup: Your refund has been initiated successfully!"
  ELSE IF SeqIncludes(used, "check_inventory") THEN "followup: I've checked our inventory for that item."
  ELSE IF SeqIncludes(used, "schedule_callback") THEN "followup: Your callback has been scheduled successfully!"
  ELSE IF SeqIncludes(used, "search_knowledge_base") THEN "followup: I've found the relevant policy information for you."
  ELSE IF SeqIncludes(used, "create_ticket") THEN "followup: I've created a priority ticket for your issue"
  ELSE "followup: I hope this information helps!"

\* Mutant: the last of the four lead-in sentences says the issue is resolved.
synthesizeResponse_LeadInResolved(used, i, rt) ==
  [message |->
     << <<"Based on the information I found, here's what I can tell you:",
          "After checking our systems, I have an update for you:",
          "I've looked into this for you and here's what I found:",
          "llm: Your issue is Resolved.">>[i + 1],
        generateFollowUpResponse(used) >>,
   total_tokens |-> 30 + rt]

\* synthesizeResponse(_llmResponse, toolsUsed): lead-in i, a blank, the
\* follow-up; 30 + floor(random * 50) tokens.
synthesizeResponse(used, i, rt) ==
  [message |->
     << <<"Based on the information I found, here's what I can tell you:",
          "After checking our systems, I have an update for you:",
          "I've looked into this for you and here's what I found:",
          "Thank you for waiting. I have the information you requested:">>[i + 1],
        generateFollowUpResponse(used) >>,
   total_tokens |-> 30 + rt]

\* Mutant: the assignment overwrites instead of adding.
Accumulate_Overwrite(total, tokens) == tokens

\* totalTokens += tokens
Accumulate(total, tokens) == total + tokens

\* ------------------------------------------------------------------- spans

\* Sentry.startSpan: the span is opened as a child of the span active in the
\* calling context, is annotated by the callback through setAttribute and
\* setStatus, and is ended when the callback's promise settles; a callback
\* that throws leaves the span with status error.
ActiveSpan(sp) ==
  IF \E i \in DOMAIN sp : sp[i].open
  THEN CHOOSE i \in DOMAIN sp : sp[i].open /\ \A j \in DOMAIN sp : sp[j].open => j <= i
  ELSE 0

OpenSpan(sp, op, attrs) ==
  Append(sp, [op |-> op, parent |-> ActiveSpan(sp), open |-> TRUE,
              status |-> "unset", attrs |-> attrs])

SetAttributes(sp, i, attrs) == [sp EXCEPT ![i].attrs = attrs @@ @]

SetStatus(sp, i, status) == [sp EXCEPT ![i].status = status]

EndSpan(sp, i, threw) ==
  [sp EXCEPT ![i].open = FALSE,
             ![i].status = IF threw \/ @ = "error" THEN "error" ELSE "ok"]

OpenEvent(i) == [ev |-> "open", span |-> i]
CloseEvent(i) == [ev |-> "close", span |-> i]

\* ------------------------------------------------------------------- state

\* Two requests can be in flight at once; each has its own locals.
Turns == {"A", "B"}

VARIABLES
  pc,               \* where each turn's POST handler stands
  message,          \* the request's message
  llmResponse,      \* `llmResponse`, the value of the reasoning span's callback
  toolIdx,          \* position of the for..of loop over tool_calls
  totalTokens,      \* `totalTokens`
  toolsUsed,        \* `toolsUsed`
  finalResponse,    \* `finalResponse`
  resolutionStatus, \* `resolutionStatus`
  spans,            \* the spans the turn has started, in start order
  trace,            \* the span starts and ends, in the order they happen
  toolResults,      \* the value each execute_tool callback returned
  response,         \* what POST returned to the caller
  request,          \* the request's sessionId and conversationHistory
  conversationHistory, \* the chat page: state `conversationHistory`
  currentMessage,   \* the chat page: state `currentMessage`, the input's value
  isLoading,        \* the chat page: state `isLoading`
  error,            \* the chat page: state `error`
  clientSpans,      \* the spans handleSendMessage has started
  pending           \* the calls of handleSendMessage that await their fetch

\* The state of the chat page.
clientVars ==
  << conversationHistory, currentMessage, isLoading, error, clientSpans, pending >>

vars ==
  << pc, message, llmResponse, toolIdx, totalTokens, toolsUsed, finalResponse,
     resolutionStatus, spans, trace, toolResults, response, request, clientVars >>

\* The chat page as useState initialises it.
ClientInit ==
  /\ conversationHistory = <<>>
  /\ currentMessage = ""
  /\ isLoading = FALSE
  /\ error = "null"
  /\ clientSpans = <<>>
  /\ pending = <<>>

\* The request of a first turn: a session id and an empty history.
FirstRequest == [sessionId |-> "session_1", conversationHistory |-> <<>>]

NoResponse == [status |-> 0]

NoLLMResponse == LLMResponse(<<>>, FALSE, <<>>, 0, 0)

\* The state of a turn whose request has the given message and has not run.
InitWith(msgs) ==
  /\ pc = [t \in Turns |-> IF t = "A" THEN "start" ELSE "absent"]
  /\ \E m \in msgs :
       message = [t \in Turns |-> IF t = "A" THEN m ELSE UndefinedMessage]
  /\ llmResponse = [t \in Turns |-> NoLLMResponse]
  /\ toolIdx = [t \in Turns |-> 1]
  /\ totalTokens = [t \in Turns |-> 0]
  /\ toolsUsed = [t \in Turns |-> <<>>]
  /\ finalResponse = [t \in Turns |-> <<>>]
  /\ resolutionStatus = [t \in Turns |-> "in_progress"]
  /\ spans = [t \in Turns |-> <<>>]
  /\ trace = [t \in Turns |-> <<>>]
  /\ toolResults = [t \in Turns |-> <<>>]
  /\ response = [t \in Turns |-> NoResponse]
  /\ request = [t \in Turns |-> FirstRequest]
  /\ ClientInit

Init == InitWith(TurnMessages)

\* ------------------------------------------------------------ POST: start

\* Mutant: the reasoning span is started before, and outside, the agent span.
PostStart_ReasoningOutsideAgent(t) ==
  /\ pc[t] = "start"
  /\ LET llm == OpenSpan(<<>>, "chat", [ name |-> "chat custom-model-v2" ])
         agent == OpenSpan(llm, "invoke_agent",
                           [ name |-> "invoke_agent Customer Support Agent" ])
     IN  /\ spans' = [spans EXCEPT ![t] = agent]
         /\ trace' = [trace EXCEPT ![t] = <<OpenEvent(1), OpenEvent(2)>>]
  /\ totalTokens' = [totalTokens EXCEPT ![t] = 0]
  /\ toolsUsed' = [toolsUsed EXCEPT ![t] = <<>>]
  /\ finalResponse' = [finalResponse EXCEPT ![t] = <<>>]
  /\ resolutionStatus' = [resolutionStatus EXCEPT ![t] = "in_progress"]
  /\ pc' = [pc EXCEPT ![t] = "reasoning"]
  /\ UNCHANGED << message, llmResponse, toolIdx, toolResults, response >>

\* POST up to its first await: the agent span is started, the locals are
\* initialised, the reasoning span is started and its callback waits for the
\* simulated delay.
PostStart(t) ==
  /\ pc[t] = "start"
  /\ LET agent == OpenSpan(<<>>, "invoke_agent",
                           [ name |-> "invoke_agent Customer Support Agent",
                             session_id |-> request[t].sessionId ])
         withTools == SetAttributes(agent, 1, [ available_tools |-> ToolNames ])
         llm == OpenSpan(withTools, "chat",
                         [ name |-> "chat custom-model-v2",
                           request_messages |->
                             Append(request[t].conversationHistory,
                                    [role |-> "user", content |-> message[t]]) ])
     IN  /\ spans' = [spans EXCEPT ![t] = llm]
         /\ trace' = [trace EXCEPT ![t] = <<OpenEvent(1), OpenEvent(2)>>]
  /\ totalTokens' = [totalTokens EXCEPT ![t] = 0]
  /\ toolsUsed' = [toolsUsed EXCEPT ![t] = <<>>]
  /\ finalResponse' = [finalResponse EXCEPT ![t] = <<>>]
  /\ resolutionStatus' = [resolutionStatus EXCEPT ![t] = "in_progress"]
  /\ pc' = [pc EXCEPT ![t] = "reasoning"]
  /\ UNCHANGED << message, llmResponse, toolIdx, toolResults, response >>

\* ------------------------------------------------------ POST: outer catch

\* The generic failure the caller gets.
FailureResponse == [status |-> 500, error |-> "AI agent processing failed"]

\* Mutant: the catch of POST returns the partial accounting with the error.
StageThrows_PartialResult(t, i, errorType) ==
  LET ended == EndSpan(spans[t], i, TRUE)
      marked == SetAttributes(SetStatus(ended, 1, "error"), 1,
                              [ error_type |-> errorType ])
  IN  /\ spans' = [spans EXCEPT ![t] = EndSpan(marked, 1, FALSE)]
      /\ trace' = [trace EXCEPT ![t] = @ \o <<CloseEvent(i), CloseEvent(1)>>]
      /\ response' = [response EXCEPT ![t] =
                        [ status |-> 500, error |-> "AI agent processing failed",
                          totalTokens |-> totalTokens[t], toolsUsed |-> toolsUsed[t] ]]
      /\ pc' = [pc EXCEPT ![t] = "done"]

\* A stage callback throws inside span i: startSpan ends span i with status
\* error and rethrows; the catch of POST marks the agent span, sets
\* error.type, returns the generic failure, and the agent span ends.
StageThrows(t, i, errorType) ==
  LET ended == EndSpan(spans[t], i, TRUE)
      marked == SetAttributes(SetStatus(ended, 1, "error"), 1,
                              [ error_type |-> errorType ])
  IN  /\ spans' = [spans EXCEPT ![t] = EndSpan(marked, 1, FALSE)]
      /\ trace' = [trace EXCEPT ![t] = @ \o <<CloseEvent(i), CloseEvent(1)>>]
      /\ response' = [response EXCEPT ![t] = FailureResponse]
      /\ pc' = [pc EXCEPT ![t] = "done"]

\* -------------------------------------------------------- POST: reasoning

\* The reasoning callback after its delay, given the stage's response: the
\* span gets the response attributes, the tokens are added, the span ends.
ReasoningReturns(t, r) ==
  LET i == ActiveSpan(spans[t])
      set == SetAttributes(spans[t], i,
               [ response_text |-> r.content,
                 input_tokens |-> r.prompt_tokens,
                 output_tokens |-> r.completion_tokens,
                 total_tokens |-> r.total_tokens ])
      withCalls == IF r.has_tool_calls
                   THEN SetAttributes(set, i, [ response_tool_calls |-> r.tool_calls ])
                   ELSE set
  IN  /\ spans' = [spans EXCEPT ![t] = EndSpan(withCalls, i, FALSE)]
      /\ trace' = [trace EXCEPT ![t] = Append(@, CloseEvent(i))]
      /\ totalTokens' = [totalTokens EXCEPT ![t] = Accumulate(@, r.total_tokens)]
      /\ llmResponse' = [llmResponse EXCEPT ![t] = r]
      /\ toolIdx' = [toolIdx EXCEPT ![t] = 1]
      /\ pc' = [pc EXCEPT ![t] = "dispatch"]
      /\ UNCHANGED << message, toolsUsed, finalResponse, resolutionStatus,
                      toolResults, response >>

\* Step 1 with the mock: message.toLowerCase() throws a TypeError when the
\* request has no message.
ReasoningStage(t) ==
  /\ pc[t] = "reasoning"
  /\ IF ~message[t].defined
     THEN /\ StageThrows(t, ActiveSpan(spans[t]), "TypeError")
          /\ UNCHANGED << message, llmResponse, toolIdx, totalTokens, toolsUsed,
                          finalResponse, resolutionStatus, toolResults >>
     ELSE \E r \in DrawIndex, rp \in Draw(100), rc \in Draw(80) :
            ReasoningReturns(t, generateMockLLMResponse(message[t],
                                     request[t].conversationHistory, r, rp, rc))

\* ------------------------------------------------------------ POST: tools

\* Mutant: the execute_tool span is started but not awaited; the loop goes on.
DispatchTool_NotAwaited(t) ==
  /\ pc[t] = "dispatch"
  /\ llmResponse[t].has_tool_calls
  /\ toolIdx[t] <= Len(llmResponse[t].tool_calls)
  /\ LET toolCall == llmResponse[t].tool_calls[toolIdx[t]]
         opened == OpenSpan(spans[t], "execute_tool",
                     [ name |-> <<"execute_tool", toolCall.name>>,
                       tool_name |-> toolCall.name ])
     IN  /\ spans' = [spans EXCEPT ![t] = opened]
         /\ trace' = [trace EXCEPT ![t] = Append(@, OpenEvent(Len(opened)))]
  /\ toolIdx' = [toolIdx EXCEPT ![t] = @ + 1]
  /\ UNCHANGED << pc, message, llmResponse, totalTokens, toolsUsed,
                  finalResponse, resolutionStatus, toolResults, response >>

\* Mutant: the loop takes the requested tool calls from the last to the first.
DispatchTool_LastFirst(t) ==
  /\ pc[t] = "dispatch"
  /\ llmResponse[t].has_tool_calls
  /\ toolIdx[t] <= Len(llmResponse[t].tool_calls)
  /\ LET calls == llmResponse[t].tool_calls
         toolCall == calls[Len(calls) + 1 - toolIdx[t]]
         opened == OpenSpan(spans[t], "execute_tool",
                     [ name |-> <<"execute_tool", toolCall.name>>,
                       tool_name |-> toolCall.name,
                       tool_description |-> toolDescription(toolCall.name),
                       tool_type |-> "function",
                       tool_input |-> toolCall.arguments ])
     IN  /\ spans' = [spans EXCEPT ![t] = opened]
         /\ trace' = [trace EXCEPT ![t] = Append(@, OpenEvent(Len(opened)))]
  /\ pc' = [pc EXCEPT ![t] = "tool"]
  /\ UNCHANGED << message, llmResponse, toolIdx, totalTokens, toolsUsed,
                  finalResponse, resolutionStatus, toolResults, response >>

\* Step 2, loop head: the next tool call gets its execute_tool span, whose
\* callback waits for the simulated delay.
DispatchTool(t) ==
  /\ pc[t] = "dispatch"
  /\ llmResponse[t].has_tool_calls
  /\ toolIdx[t] <= Len(llmResponse[t].tool_calls)
  /\ LET toolCall == llmResponse[t].tool_calls[toolIdx[t]]
         opened == OpenSpan(spans[t], "execute_tool",
                     [ name |-> <<"execute_tool", toolCall.name>>,
                       tool_name |-> toolCall.name,
                       tool_description |-> toolDescription(toolCall.name),
                       tool_type |-> "function",
                       tool_input |-> toolCall.arguments ])
     IN  /\ spans' = [spans EXCEPT ![t] = opened]
         /\ trace' = [trace EXCEPT ![t] = Append(@, OpenEvent(Len(opened)))]
  /\ pc' = [pc EXCEPT ![t] = "tool"]
  /\ UNCHANGED << message, llmResponse, toolIdx, totalTokens, toolsUsed,
                  finalResponse, resolutionStatus, toolResults, response >>

\* toolTokensUsed = base + Math.floor(Math.random() * spread), per tool.
TokenBase(name) ==
  CASE name = "search_knowledge_base" -> 25
    [] name = "create_ticket" -> 15
    [] name = "check_order_status" -> 20
    [] name = "get_account_info" -> 30
    [] name = "process_refund" -> 35
    [] name = "check_inventory" -> 25
    [] name = "schedule_callback" -> 20
    [] OTHER -> 0

\* Mutant: the random part of a tool's token count is twice as wide.
TokenSpread_Double(name) ==
  CASE name = "search_knowledge_base" -> 30
    [] name = "create_ticket" -> 20
    [] name = "check_order_status" -> 20
    [] name = "get_account_info" -> 40
    [] name = "process_refund" -> 30
    [] name = "check_inventory" -> 30
    [] name = "schedule_callback" -> 20
    [] OTHER -> 1

TokenSpread(name) ==
  CASE name = "search_knowledge_base" -> 15
    [] name = "create_ticket" -> 10
    [] name = "check_order_status" -> 10
    [] name = "get_account_info" -> 20
    [] name = "process_refund" -> 15
    [] name = "check_inventory" -> 15
    [] name = "schedule_callback" -> 10
    [] OTHER -> 1

\* The custom attributes a tool's case sets on its span, from the parsed
\* arguments.
Field(obj, key, default) == IF key \in DOMAIN obj THEN obj[key] ELSE default

CustomAttributes(name, args) ==
  CASE name = "search_knowledge_base" ->
         [ search_query |-> Field(args, "query", "undefined"), search_results_count |-> 4 ]
    [] name = "create_ticket" ->
         [ ticket_id |-> "TICKET-now", ticket_priority |-> Field(args, "priority", "medium") ]
    [] name = "check_order_status" ->
         [ order_id |-> Field(args, "orderId", "undefined") ]
    [] name = "get_account_info" ->
         [ account_lookup_type |->
             IF "customerId" \in DOMAIN args THEN "customer_id" ELSE "email" ]
    [] name = "process_refund" ->
         [ refund_order_id |-> Field(args, "orderId", "undefined"),
           refund_amount |-> Field(args, "amount", "undefined") ]
    [] name = "check_inventory" ->
         [ inventory_product_id |->
             Field(args, "productId", Field(args, "sku", "undefined")) ]
    [] name = "schedule_callback" ->
         [ callback_scheduled_time |-> Field(args, "preferredTime", "next_available"),
           callback_phone |-> Field(args, "phone", "account_default") ]
    [] OTHER -> <<>>

\* The status a tool's case assigns to resolutionStatus while it runs.
IntermediateStatus(name, status) ==
  CASE name = "create_ticket" -> "escalated"
    [] name = "process_refund" -> "resolved"
    [] OTHER -> status

\* Mutant: the switch has no default case, an unknown name falls through.
ToolError_NoDefault(toolCall, handlerThrows) ==
  IF toolCall.name \notin ToolNames
    THEN [type |-> "none", message |-> <<>>]
  ELSE IF ~toolCall.arguments.wellFormed
    THEN [type |-> "SyntaxError", message |-> <<"Unexpected token in JSON">>]
  ELSE IF handlerThrows
    THEN [type |-> "Error", message |-> <<"handler failed">>]
  ELSE [type |-> "none", message |-> <<>>]

\* The body of the try block of an execute_tool callback: the error it
\* throws, or "none".  An unknown name reaches the default case; a known
\* tool parses its arguments, then awaits its handler.
ToolError(toolCall, handlerThrows) ==
  IF toolCall.name \notin ToolNames
    THEN [type |-> "Error", message |-> <<"Unknown tool: ", toolCall.name>>]
  ELSE IF ~toolCall.arguments.wellFormed
    THEN [type |-> "SyntaxError", message |-> <<"Unexpected token in JSON">>]
  ELSE IF handlerThrows
    THEN [type |-> "Error", message |-> <<"handler failed">>]
  ELSE [type |-> "none", message |-> <<>>]

\* Mutant: the loop does not advance after a tool ran and runs it again.
ToolSucceeds_Retry(t, toolCall, toolTokensUsed) ==
  LET i == ActiveSpan(spans[t])
      toolOutput == <<"output of ", toolCall.name>>
      custom == SetAttributes(spans[t], i,
                  CustomAttributes(toolCall.name, toolCall.arguments.value))
      set == SetAttributes(custom, i,
               [ tool_output |-> toolOutput, total_tokens |-> toolTokensUsed ])
  IN  /\ spans' = [spans EXCEPT ![t] = EndSpan(set, i, FALSE)]
      /\ trace' = [trace EXCEPT ![t] = Append(@, CloseEvent(i))]
      /\ toolsUsed' = [toolsUsed EXCEPT ![t] = Append(@, toolCall.name)]
      /\ totalTokens' = [totalTokens EXCEPT ![t] = Accumulate(@, toolTokensUsed)]
      /\ resolutionStatus' = [resolutionStatus EXCEPT ![t] =
                                IntermediateStatus(toolCall.name, @)]
      /\ toolResults' = [toolResults EXCEPT ![t] = Append(@, toolOutput)]
      /\ toolIdx' = toolIdx
      /\ pc' = [pc EXCEPT ![t] = "dispatch"]
      /\ UNCHANGED response

\* Mutant: toolsUsed is one array of the module, shared by every request.
ToolSucceeds_SharedToolsUsed(t, toolCall, toolTokensUsed) ==
  LET i == ActiveSpan(spans[t])
      toolOutput == <<"output of ", toolCall.name>>
      custom == SetAttributes(spans[t], i,
                  CustomAttributes(toolCall.name, toolCall.arguments.value))
      set == SetAttributes(custom, i,
               [ tool_output |-> toolOutput, total_tokens |-> toolTokensUsed ])
  IN  /\ spans' = [spans EXCEPT ![t] = EndSpan(set, i, FALSE)]
      /\ trace' = [trace EXCEPT ![t] = Append(@, CloseEvent(i))]
      /\ toolsUsed' = [u \in Turns |-> Append(toolsUsed[u], toolCall.name)]
      /\ totalTokens' = [totalTokens EXCEPT ![t] = Accumulate(@, toolTokensUsed)]
      /\ resolutionStatus' = [resolutionStatus EXCEPT ![t] =
                                IntermediateStatus(toolCall.name, @)]
      /\ toolResults' = [toolResults EXCEPT ![t] = Append(@, toolOutput)]
      /\ toolIdx' = [toolIdx EXCEPT ![t] = @ + 1]
      /\ pc' = [pc EXCEPT ![t] = "dispatch"]
      /\ UNCHANGED response

\* The end of the try block of an execute_tool callback: the span gets the
\* custom, output and token attributes, the name is pushed on toolsUsed, the
\* tokens are added; the callback returns toolOutput and the span ends.
ToolSucceeds(t, toolCall, toolTokensUsed) ==
  LET i == ActiveSpan(spans[t])
      toolOutput == <<"output of ", toolCall.name>>
      custom == SetAttributes(spans[t], i,
                  CustomAttributes(toolCall.name, toolCall.arguments.value))
      set == SetAttributes(custom, i,
               [ tool_output |-> toolOutput, total_tokens |-> toolTokensUsed ])
  IN  /\ spans' = [spans EXCEPT ![t] = EndSpan(set, i, FALSE)]
      /\ trace' = [trace EXCEPT ![t] = Append(@, CloseEvent(i))]
      /\ toolsUsed' = [toolsUsed EXCEPT ![t] = Append(@, toolCall.name)]
      /\ totalTokens' = [totalTokens EXCEPT ![t] = Accumulate(@, toolTokensUsed)]
      /\ resolutionStatus' = [resolutionStatus EXCEPT ![t] =
                                IntermediateStatus(toolCall.name, @)]
      /\ toolResults' = [toolResults EXCEPT ![t] = Append(@, toolOutput)]
      /\ toolIdx' = [toolIdx EXCEPT ![t] = @ + 1]
      /\ pc' = [pc EXCEPT ![t] = "dispatch"]
      /\ UNCHANGED response

\* Mutant: the tool error is not caught in the tool's callback and reaches
\* the catch of POST.
ToolCatch_Rethrow(t, toolCall, err) ==
  /\ StageThrows(t, ActiveSpan(spans[t]), err.type)
  /\ UNCHANGED << toolsUsed, totalTokens, resolutionStatus, toolResults, toolIdx >>

\* Mutant: the catch lists the failed tool in toolsUsed.
ToolCatch_PushesName(t, toolCall, err) ==
  LET i == ActiveSpan(spans[t])
      toolOutput == <<"Error executing ", toolCall.name, ": ">> \o err.message
      set == SetAttributes(SetStatus(spans[t], i, "error"), i,
               [ error_type |-> err.type, error_message |-> err.message ])
  IN  /\ spans' = [spans EXCEPT ![t] = EndSpan(set, i, FALSE)]
      /\ trace' = [trace EXCEPT ![t] = Append(@, CloseEvent(i))]
      /\ toolResults' = [toolResults EXCEPT ![t] = Append(@, toolOutput)]
      /\ toolsUsed' = [toolsUsed EXCEPT ![t] = Append(@, toolCall.name)]
      /\ toolIdx' = [toolIdx EXCEPT ![t] = @ + 1]
      /\ pc' = [pc EXCEPT ![t] = "dispatch"]
      /\ UNCHANGED << totalTokens, resolutionStatus, response >>

\* catch (toolError): the span gets status error, error.type and
\* error.message, toolOutput becomes the error string; the callback returns
\* it and the span ends.  The loop goes on.
ToolCatch(t, toolCall, err) ==
  LET i == ActiveSpan(spans[t])
      toolOutput == <<"Error executing ", toolCall.name, ": ">> \o err.message
      set == SetAttributes(SetStatus(spans[t], i, "error"), i,
               [ error_type |-> err.type, error_message |-> err.message ])
  IN  /\ spans' = [spans EXCEPT ![t] = EndSpan(set, i, FALSE)]
      /\ trace' = [trace EXCEPT ![t] = Append(@, CloseEvent(i))]
      /\ toolResults' = [toolResults EXCEPT ![t] = Append(@, toolOutput)]
      /\ toolIdx' = [toolIdx EXCEPT ![t] = @ + 1]
      /\ pc' = [pc EXCEPT ![t] = "dispatch"]
      /\ UNCHANGED << toolsUsed, totalTokens, resolutionStatus, response >>

\* The execute_tool callback after its delay.
RunTool(t, handlerOutcomes) ==
  /\ pc[t] = "tool"
  /\ \E handlerThrows \in handlerOutcomes,
        rt \in Draw(TokenSpread(llmResponse[t].tool_calls[toolIdx[t]].name)) :
       LET toolCall == llmResponse[t].tool_calls[toolIdx[t]]
           err == ToolError(toolCall, handlerThrows)
       IN  IF err.type = "none"
           THEN ToolSucceeds(t, toolCall, TokenBase(toolCall.name) + rt)
           ELSE ToolCatch(t, toolCall, err)
  /\ UNCHANGED << message, llmResponse, finalResponse >>

\* The mock tool bodies never throw.
ExecuteTool(t) == RunTool(t, {FALSE})

\* ------------------------------------------- POST: resolution and response

\* Mutant: the text of the final response is tested before toolsUsed.
DetermineResolution_TextFirst(used, final) ==
  IF textIncludes(final, "resolved") \/ textIncludes(final, "solved") THEN "resolved"
  ELSE IF SeqIncludes(used, "create_ticket") THEN "escalated"
  ELSE "answered"

\* Mutant: the final response is searched without toLowerCase.
DetermineResolution_CaseSensitive(used, final) ==
  IF SeqIncludes(used, "create_ticket") THEN "escalated"
  ELSE IF includes(TextFragments(final), "resolved")
          \/ includes(TextFragments(final), "solved") THEN "resolved"
  ELSE "answered"

\* "Determine resolution status": first match of three.
DetermineResolution(used, final) ==
  IF SeqIncludes(used, "create_ticket") THEN "escalated"
  ELSE IF textIncludes(final, "resolved") \/ textIncludes(final, "solved") THEN "resolved"
  ELSE "answered"

\* Mutant: the estimate is rounded to cents, toFixed(2).
CostEstimate_Cents(tokens) == <<tokens \div 10000, (((tokens % 10000) + 50) \div 100) * 100>>

\* (totalTokens * 0.0001).toFixed(4): the integer part and the four decimals.
CostEstimate(tokens) == <<tokens \div 10000, tokens % 10000>>

\* From "Determine resolution status" to the return: the agent span gets its
\* final attributes, the outcome is returned and the agent span ends.
Resolve(t, sp, final) ==
  LET status == DetermineResolution(toolsUsed[t], final)
      set == SetAttributes(sp, 1,
               [ response_text |-> final,
                 total_tokens |-> totalTokens[t],
                 tools_used_count |-> Len(toolsUsed[t]),
                 tools_used |-> toolsUsed[t],
                 resolution_status |-> status,
                 cost_estimate_usd |-> CostEstimate(totalTokens[t]) ])
  IN  /\ resolutionStatus' = [resolutionStatus EXCEPT ![t] = status]
      /\ spans' = [spans EXCEPT ![t] = EndSpan(set, 1, FALSE)]
      /\ trace' = [trace EXCEPT ![t] = Append(@, CloseEvent(1))]
      /\ response' = [response EXCEPT ![t] =
                        [ status |-> 200,
                          message |-> final,
                          totalTokens |-> totalTokens[t],
                          toolsUsed |-> toolsUsed[t],
                          resolutionStatus |-> status ]]
      /\ pc' = [pc EXCEPT ![t] = "done"]

\* Mutant: synthesis runs on every turn.
ToolsWereUsed_Always(t) == TRUE

\* Mutant: synthesis runs whenever a tool was requested.
ToolsWereUsed_Requested(t) ==
  llmResponse[t].has_tool_calls /\ Len(llmResponse[t].tool_calls) > 0

\* toolsUsed.length > 0
ToolsWereUsed(t) == Len(toolsUsed[t]) > 0

\* Step 3, after the loop: with a tool in toolsUsed the synthesis span is
\* started and its callback waits; otherwise the draft is the final response
\* and the handler runs to its return.
FinalResponse(t) ==
  /\ pc[t] = "dispatch"
  /\ ~(llmResponse[t].has_tool_calls /\ toolIdx[t] <= Len(llmResponse[t].tool_calls))
  /\ IF ToolsWereUsed(t)
     THEN /\ LET opened == OpenSpan(spans[t], "chat",
                             [ name |-> "chat custom-model-v2",
                               call_type |-> "final_synthesis" ])
             IN  /\ spans' = [spans EXCEPT ![t] = opened]
                 /\ trace' = [trace EXCEPT ![t] = Append(@, OpenEvent(Len(opened)))]
          /\ pc' = [pc EXCEPT ![t] = "synthesis"]
          /\ UNCHANGED << finalResponse, resolutionStatus, response >>
     ELSE /\ finalResponse' = [finalResponse EXCEPT ![t] = llmResponse[t].content]
          /\ Resolve(t, spans[t], llmResponse[t].content)
  /\ UNCHANGED << message, llmResponse, toolIdx, totalTokens, toolsUsed, toolResults >>

\* The synthesis callback after its delay, given the stage's response.
SynthesisReturns(t, s) ==
  LET i == ActiveSpan(spans[t])
  IN  /\ spans' = [spans EXCEPT ![t] =
                     EndSpan(SetAttributes(spans[t], i,
                               [ response_text |-> s.message,
                                 total_tokens |-> s.total_tokens ]),
                             i, FALSE)]
      /\ trace' = [trace EXCEPT ![t] = Append(@, CloseEvent(i))]
      /\ totalTokens' = [totalTokens EXCEPT ![t] = Accumulate(@, s.total_tokens)]
      /\ finalResponse' = [finalResponse EXCEPT ![t] = s.message]
      /\ pc' = [pc EXCEPT ![t] = "resolution"]
      /\ UNCHANGED << message, llmResponse, toolIdx, toolsUsed, resolutionStatus,
                      toolResults, response >>

SynthesisStage(t) ==
  /\ pc[t] = "synthesis"
  /\ \E i \in DrawIndex, rt \in Draw(50) :
       SynthesisReturns(t, synthesizeResponse(toolsUsed[t], i, rt))

\* After the await of the synthesis span.
Resolution(t) ==
  /\ pc[t] = "resolution"
  /\ Resolve(t, spans[t], finalResponse[t])
  /\ UNCHANGED << message, llmResponse, toolIdx, totalTokens, toolsUsed,
                  finalResponse, toolResults >>

\* ------------------------------------------------------------ the program

\* A step of POST leaves the request and the chat page as they are.
ServerFrame == UNCHANGED << request, clientVars >>

Next ==
  /\ \E t \in Turns :
       \/ PostStart(t)
       \/ ReasoningStage(t)
       \/ DispatchTool(t)
       \/ ExecuteTool(t)
       \/ FinalResponse(t)
       \/ SynthesisStage(t)
       \/ Resolution(t)
  /\ ServerFrame

Spec == Init /\ [][Next]_vars

\* Every await of POST is a timer (setTimeout) or a promise that settles: a
\* turn that can take a step eventually takes one.
SpecLive == Init /\ [][Next]_vars /\ WF_vars(Next)

\* --------------------------------------- the handler with arbitrary stages

(***************************************************************************)
(* generateMockLLMResponse requests at most one tool, always a registered  *)
(* one with well-formed arguments, and the mock tool bodies and            *)
(* synthesizeResponse never throw.  POST itself is written against the     *)
(* LLMResponse interface (tool_calls?: ToolCall[]) and catches tool and    *)
(* stage failures.  SpecOpen runs the same POST steps with the three       *)
(* stand-ins replaced by any implementation of their signatures: the       *)
(* reasoning stage returns any LLMResponse or throws, a tool handler may   *)
(* throw, the synthesis stage returns any SynthesisResponse or throws.     *)
(***************************************************************************)

\* Texts an arbitrary stage may produce.
OpenTexts ==
  { <<"llm: Here is your answer.">>,
    <<"llm: Your issue is Resolved.">>,
    <<"llm: we solved it">> }

\* Names an arbitrary reasoning stage may request: registered ones and one
\* that is not.
OpenToolNames == {"create_ticket", "process_refund", "check_order_status", "delete_account"}

OpenArguments(name) ==
  CASE name = "create_ticket" -> [subject |-> {"Escalate"}, priority |-> "high"]
    [] name = "process_refund" -> [orderId |-> "ORD-12345", amount |-> "49.99"]
    [] name = "check_order_status" -> [orderId |-> "ORD-12345"]
    [] OTHER -> [userId |-> "U-1"]

OpenCalls ==
  { ToolCall(name, OpenArguments(name)) : name \in OpenToolNames }
    \cup { [name |-> name, arguments |-> MalformedJSON] : name \in OpenToolNames }

OpenCallSeqs == UNION { [1 .. k -> OpenCalls] : k \in 0 .. MaxToolCalls }

OpenLLMResponses ==
  { LLMResponse(text, TRUE, calls, 50 + rp, 20) :
      text \in OpenTexts, calls \in OpenCallSeqs, rp \in Draw(100) }
    \cup { LLMResponse(text, FALSE, <<>>, 50 + rp, 20) :
             text \in OpenTexts, rp \in Draw(100) }

OpenSynthesisResponses ==
  { [message |-> text, total_tokens |-> 30 + rt] : text \in OpenTexts, rt \in Draw(50) }

\* Step 1 with an arbitrary reasoning stage.
ReasoningAny(t) ==
  /\ pc[t] = "reasoning"
  /\ \/ \E r \in OpenLLMResponses : ReasoningReturns(t, r)
     \/ /\ StageThrows(t, ActiveSpan(spans[t]), "Error")
        /\ UNCHANGED << message, llmResponse, toolIdx, totalTokens, toolsUsed,
                        finalResponse, resolutionStatus, toolResults >>

\* A tool whose handler may throw.
ExecuteToolAny(t) == RunTool(t, BOOLEAN)

\* Step 3 with an arbitrary synthesis stage.
SynthesisAny(t) ==
  /\ pc[t] = "synthesis"
  /\ \/ \E s \in OpenSynthesisResponses : SynthesisReturns(t, s)
     \/ /\ StageThrows(t, ActiveSpan(spans[t]), "Error")
        /\ UNCHANGED << message, llmResponse, toolIdx, totalTokens, toolsUsed,
                        finalResponse, resolutionStatus, toolResults >>

OpenMessages == { StringMessage({"Where", "my", "order"}) }

InitOpen == InitWith(OpenMessages)

NextOpen ==
  /\ \E t \in Turns :
       \/ PostStart(t)
       \/ ReasoningStage(t)
       \/ ReasoningAny(t)
       \/ DispatchTool(t)
       \/ ExecuteToolAny(t)
       \/ FinalResponse(t)
       \/ SynthesisStage(t)
       \/ SynthesisAny(t)
       \/ Resolution(t)
  /\ ServerFrame

SpecOpen == InitOpen /\ [][NextOpen]_vars

\* ------------------- the mock reasoning stage with arbitrary later stages

\* The reasoning stage is generateMockLLMResponse, on every turn message; a
\* tool handler may throw, and the synthesis stage returns any
\* SynthesisResponse or throws.
InitScenario == InitWith(TurnMessages)

NextScenario ==
  /\ \E t \in Turns :
       \/ PostStart(t)
       \/ ReasoningStage(t)
       \/ DispatchTool(t)
       \/ ExecuteToolAny(t)
       \/ FinalResponse(t)
       \/ SynthesisStage(t)
       \/ SynthesisAny(t)
       \/ Resolution(t)
  /\ ServerFrame

SpecScenario == InitScenario /\ [][NextScenario]_vars

\* ------------------------------------------------- two requests in flight

\* Two POST requests run at once, each with one of these messages; their
\* steps interleave in any order at the awaits.
ConcurrentMessages ==
  { StringMessage({"Where", "my", "order"}),
    StringMessage({"Hi"}) }

InitConcurrent ==
  /\ pc = [t \in Turns |-> "start"]
  /\ message \in [Turns -> ConcurrentMessages]
  /\ llmResponse = [t \in Turns |-> NoLLMResponse]
  /\ toolIdx = [t \in Turns |-> 1]
  /\ totalTokens = [t \in Turns |-> 0]
  /\ toolsUsed = [t \in Turns |-> <<>>]
  /\ finalResponse = [t \in Turns |-> <<>>]
  /\ resolutionStatus = [t \in Turns |-> "in_progress"]
  /\ spans = [t \in Turns |-> <<>>]
  /\ trace = [t \in Turns |-> <<>>]
  /\ toolResults = [t \in Turns |-> <<>>]
  /\ response = [t \in Turns |-> NoResponse]
  /\ request = [t \in Turns |-> FirstRequest]
  /\ ClientInit

SpecConcurrent == InitConcurrent /\ [][Next]_vars

\* ------------------------------------------ the reasoning stage on its own

\* Every message of at most MaxKeywords tokens.
AllMessages == { StringMessage(toks) : toks \in SubsetsUpTo(Vocabulary, MaxKeywords) }

InitReasoning == InitWith(AllMessages)

\* generateMockLLMResponse applied to the request's message.
ApplyReasoning(t) ==
  /\ pc[t] = "start"
  /\ \E r \in DrawIndex, rp \in Draw(100), rc \in Draw(80) :
       llmResponse' = [llmResponse EXCEPT ![t] =
                         generateMockLLMResponse(message[t],
                           request[t].conversationHistory, r, rp, rc)]
  /\ pc' = [pc EXCEPT ![t] = "decided"]
  /\ UNCHANGED << message, toolIdx, totalTokens, toolsUsed, finalResponse,
                  resolutionStatus, spans, trace, toolResults, response >>

NextReasoning == (\E t \in Turns : ApplyReasoning(t)) /\ ServerFrame

SpecReasoning == InitReasoning /\ [][NextReasoning]_vars

\* ------------------------- the reasoning stage on one message, two requests

\* What two requests can carry next to the message: the session id of the
\* page that sent them and the history that page had rendered.
RequestContexts ==
  { FirstRequest,
    [sessionId |-> "session_2",
     conversationHistory |->
       << [role |-> "user", content |-> StringMessage({"Process", "refund"})],
          [role |-> "assistant",
           content |-> "I'll help you process a refund. Let me initiate that for you."] >>] }

\* Turns A and B carry the same message; each has its own request context.
InitDeterminism ==
  /\ pc = [t \in Turns |-> "start"]
  /\ \E m \in DemoMessages : message = [t \in Turns |-> m]
  /\ llmResponse = [t \in Turns |-> NoLLMResponse]
  /\ toolIdx = [t \in Turns |-> 1]
  /\ totalTokens = [t \in Turns |-> 0]
  /\ toolsUsed = [t \in Turns |-> <<>>]
  /\ finalResponse = [t \in Turns |-> <<>>]
  /\ resolutionStatus = [t \in Turns |-> "in_progress"]
  /\ spans = [t \in Turns |-> <<>>]
  /\ trace = [t \in Turns |-> <<>>]
  /\ toolResults = [t \in Turns |-> <<>>]
  /\ response = [t \in Turns |-> NoResponse]
  /\ request \in [Turns -> RequestContexts]
  /\ ClientInit

SpecDeterminism == InitDeterminism /\ [][NextReasoning]_vars

\* ------------------------------------------ the synthesis stage on its own

\* Every toolsUsed array of at most MaxToolsUsed names, registered or not.
FollowUpInputs ==
  UNION { [1 .. k -> ToolNames \cup {"delete_account"}] : k \in 0 .. MaxToolsUsed }

InitSynthesis ==
  /\ pc = [t \in Turns |-> IF t = "A" THEN "start" ELSE "absent"]
  /\ message = [t \in Turns |-> UndefinedMessage]
  /\ llmResponse = [t \in Turns |-> NoLLMResponse]
  /\ toolIdx = [t \in Turns |-> 1]
  /\ totalTokens = [t \in Turns |-> 0]
  /\ \E used \in FollowUpInputs :
       toolsUsed = [t \in Turns |-> IF t = "A" THEN used ELSE <<>>]
  /\ finalResponse = [t \in Turns |-> <<>>]
  /\ resolutionStatus = [t \in Turns |-> "in_progress"]
  /\ spans = [t \in Turns |-> <<>>]
  /\ trace = [t \in Turns |-> <<>>]
  /\ toolResults = [t \in Turns |-> <<>>]
  /\ response = [t \in Turns |-> NoResponse]
  /\ request = [t \in Turns |-> FirstRequest]
  /\ ClientInit

\* synthesizeResponse applied to the toolsUsed array.
ApplySynthesis(t) ==
  /\ pc[t] = "start"
  /\ \E i \in DrawIndex, rt \in Draw(50) :
       /\ finalResponse' = [finalResponse EXCEPT ![t] =
                              synthesizeResponse(toolsUsed[t], i, rt).message]
       /\ totalTokens' = [totalTokens EXCEPT ![t] =
                            synthesizeResponse(toolsUsed[t], i, rt).total_tokens]
  /\ pc' = [pc EXCEPT ![t] = "synthesized"]
  /\ UNCHANGED << message, llmResponse, toolIdx, toolsUsed, resolutionStatus,
                  spans, trace, toolResults, response >>

NextSynthesis == (\E t \in Turns : ApplySynthesis(t)) /\ ServerFrame

SpecSynthesis == InitSynthesis /\ [][NextSynthesis]_vars

\* ------------------------------------------------------------- properties

IsAgent(s) == s.op = "invoke_agent"
IsTool(s) == s.op = "execute_tool"
IsChat(s) == s.op = "chat"
IsSynthesis(s) ==
  IsChat(s) /\ "call_type" \in DOMAIN s.attrs /\ s.attrs.call_type = "final_synthesis"
IsReasoning(s) == IsChat(s) /\ ~IsSynthesis(s)

\* The turn returned an outcome / the generic failure.
Completed(t) == response[t].status = 200
Failed(t) == response[t].status = 500

\* Where an event stands in a trace (0 when it is not there), and how often.
Pos(tr, e) ==
  IF \E k \in DOMAIN tr : tr[k] = e
  THEN CHOOSE k \in DOMAIN tr : tr[k] = e /\ \A j \in DOMAIN tr : tr[j] = e => k <= j
  ELSE 0

Count(tr, e) == Cardinality({ k \in DOMAIN tr : tr[k] = e })

Opened(t, i) == Pos(trace[t], OpenEvent(i))
Closed(t, i) == Pos(trace[t], CloseEvent(i))

Range(seq) == { seq[i] : i \in DOMAIN seq }

\* The execute_tool spans of a turn, in start order: the k-th is the span of
\* the k-th tool call.
ToolSpans(t) == SelectSeq(spans[t], IsTool)

ChatFailed(t) == \E i \in DOMAIN spans[t] : IsChat(spans[t][i]) /\ spans[t][i].status = "error"

\* The sum of the gen_ai.usage.total_tokens attributes of the spans under the
\* agent span.
RECURSIVE ChildTokens(_, _)
ChildTokens(sp, n) ==
  IF n <= 1 THEN 0
  ELSE ChildTokens(sp, n - 1)
       + (IF "total_tokens" \in DOMAIN sp[n].attrs THEN sp[n].attrs.total_tokens ELSE 0)

\* C1: in a completed turn the spans were started in the order agent,
\* reasoning chat, execute_tool*, at most one synthesis chat; every other
\* span is a child of the agent span and was started while it was open; the
\* tool spans were started after the reasoning span ended and before the
\* synthesis span started, and the synthesis span is the last one started.
C1_SpanOrder ==
  \A t \in Turns :
    Completed(t) =>
      LET sp == spans[t]
          n == Len(sp)
      IN  /\ n >= 2
          /\ { i \in 1 .. n : IsAgent(sp[i]) } = {1}
          /\ sp[1].parent = 0
          /\ { i \in 1 .. n : IsReasoning(sp[i]) } = {2}
          /\ \A i \in 3 .. n : IsTool(sp[i]) \/ (IsSynthesis(sp[i]) /\ i = n)
          /\ \A i \in 2 .. n :
               /\ sp[i].parent = 1
               /\ 0 < Opened(t, 1) /\ Opened(t, 1) < Opened(t, i)
               /\ Opened(t, i) < Closed(t, 1)
          /\ \A i, j \in 1 .. n : i < j => Opened(t, i) < Opened(t, j)
          /\ \A i \in 3 .. n : 0 < Closed(t, 2) /\ Closed(t, 2) < Opened(t, i)

\* A completed turn with two tool spans and a synthesis span.
C1_Witness ==
  \E t \in Turns :
    /\ Completed(t)
    /\ Len(ToolSpans(t)) >= 2
    /\ \E i \in DOMAIN spans[t] : IsSynthesis(spans[t][i])

\* C2: in a completed turn the total_tokens attribute of the agent span, and
\* the totalTokens returned, equal the sum of the total_tokens attributes of
\* the child spans (a span without the attribute counts 0).
C2_TokenSum ==
  \A t \in Turns :
    Completed(t) =>
      /\ spans[t][1].attrs.total_tokens = ChildTokens(spans[t], Len(spans[t]))
      /\ response[t].totalTokens = spans[t][1].attrs.total_tokens

\* A completed turn with a failed tool, a charged tool and a synthesis span.
C2_Witness ==
  \E t \in Turns :
    /\ Completed(t)
    /\ \E i, j, k \in DOMAIN spans[t] :
         /\ IsTool(spans[t][i]) /\ "total_tokens" \notin DOMAIN spans[t][i].attrs
         /\ IsTool(spans[t][j]) /\ "total_tokens" \in DOMAIN spans[t][j].attrs
         /\ IsSynthesis(spans[t][k])

\* The rules by number, and the tool each rule requests.
RuleMatches(k, lm) ==
  CASE k = 1 -> Rule1(lm) [] k = 2 -> Rule2(lm) [] k = 3 -> Rule3(lm)
    [] k = 4 -> Rule4(lm) [] k = 5 -> Rule5(lm) [] k = 6 -> Rule6(lm)
    [] k = 7 -> Rule7(lm)

RuleTool ==
  << "process_refund", "check_inventory", "schedule_callback", "get_account_info",
     "check_order_status", "search_knowledge_base", "create_ticket" >>

MatchingRules(msg) == { k \in 1 .. 7 : RuleMatches(k, toLowerCase(msg.toks)) }

\* C3: the reasoning stage requests exactly the tool of the lowest-numbered
\* rule that matches the message, and no tool when no rule matches.
C3_RulePriority ==
  \A t \in Turns :
    pc[t] = "decided" =>
      LET matching == MatchingRules(message[t])
          r == llmResponse[t]
      IN  IF matching = {}
          THEN ~r.has_tool_calls /\ r.tool_calls = <<>>
          ELSE /\ r.has_tool_calls
               /\ Len(r.tool_calls) = 1
               /\ \E k \in matching :
                    /\ \A j \in matching : k <= j
                    /\ r.tool_calls[1].name = RuleTool[k]

\* A decided message that the refund rule and a later rule both match.
C3_Witness ==
  \E t \in Turns :
    /\ pc[t] = "decided"
    /\ 1 \in MatchingRules(message[t])
    /\ Cardinality(MatchingRules(message[t])) >= 2

\* The texts that contain "resolved" or "solved" in some case.
SaysResolved(text) ==
  \E i \in DOMAIN text : text[i] \in {"llm: Your issue is Resolved.", "llm: we solved it"}

C5_SpansClosed ==
  \A t \in Turns :
    LET sp == spans[t]
    IN  /\ \A i \in DOMAIN sp :
             /\ Count(trace[t], OpenEvent(i)) = 1
             /\ Count(trace[t], CloseEvent(i)) = (IF sp[i].open THEN 0 ELSE 1)
             /\ ~sp[i].open => /\ sp[i].status \in {"ok", "error"}
                               /\ Opened(t, i) < Closed(t, i)
        /\ Len(trace[t]) <= 2 * Len(sp)
        /\ (pc[t] = "done" \/ response[t] # NoResponse) =>
             \A i \in DOMAIN sp :
               /\ ~sp[i].open
               /\ i > 1 => Closed(t, i) < Closed(t, 1)

\* A turn that failed in the synthesis stage after a tool had failed.
C5_Witness ==
  \E t \in Turns :
    /\ Failed(t)
    /\ \E i, j \in DOMAIN spans[t] :
         /\ IsTool(spans[t][i]) /\ spans[t][i].status = "error"
         /\ IsSynthesis(spans[t][j]) /\ spans[t][j].status = "error"

\* C6: a tool failure stays inside the tool's span: the span ends with status
\* error, error.type and error.message, its callback returns the error
\* string as the one result of that call, the loop dispatches every later
\* call, and a turn fails only when a chat stage failed.
C6_ToolFailureContained ==
  \A t \in Turns :
    LET ts == ToolSpans(t)
        calls == llmResponse[t].tool_calls
        ended == { k \in DOMAIN ts : ~ts[k].open }
    IN  /\ Len(toolResults[t]) = Cardinality(ended)
        /\ \A k \in ended :
             ts[k].status = "error" =>
               /\ {"error_type", "error_message"} \subseteq DOMAIN ts[k].attrs
               /\ toolResults[t][k] =
                    <<"Error executing ", calls[k].name, ": ">> \o ts[k].attrs.error_message
        /\ (Failed(t) \/ (spans[t] # <<>> /\ spans[t][1].status = "error")) => ChatFailed(t)
        /\ (pc[t] = "done" /\ ~ChatFailed(t)) => Completed(t)
        /\ (pc[t] \in {"synthesis", "resolution"} \/ Completed(t)) =>
             Len(ts) = Len(calls)

\* A completed turn in which a tool failed and a later tool succeeded.
C6_Witness ==
  \E t \in Turns :
    /\ Completed(t)
    /\ \E k, m \in DOMAIN ToolSpans(t) :
         /\ k < m
         /\ ToolSpans(t)[k].status = "error"
         /\ ToolSpans(t)[m].status = "ok"

\* C7: a call of an unregistered tool ends its span with status error and
\* the output "Error executing <name>: Unknown tool: <name>"; the name is not
\* pushed on toolsUsed, no tokens are reported or charged for it, and the
\* turn does not fail for it.
C7_UnknownTool ==
  \A t \in Turns :
    LET ts == ToolSpans(t)
        calls == llmResponse[t].tool_calls
    IN  /\ \A k \in DOMAIN ts :
             (~ts[k].open /\ calls[k].name \notin ToolNames) =>
               /\ ts[k].status = "error"
               /\ ts[k].attrs.error_message = <<"Unknown tool: ", calls[k].name>>
               /\ toolResults[t][k] =
                    <<"Error executing ", calls[k].name, ": ", "Unknown tool: ", calls[k].name>>
               /\ "total_tokens" \notin DOMAIN ts[k].attrs
               /\ "tool_output" \notin DOMAIN ts[k].attrs
        /\ Range(toolsUsed[t]) \subseteq ToolNames
        /\ pc[t] \in {"dispatch", "tool", "synthesis"} =>
             /\ totalTokens[t] = ChildTokens(spans[t], Len(spans[t]))
             /\ response[t] = NoResponse
             /\ spans[t][1].status = "unset"

\* A completed turn that dispatched an unregistered tool.
C7_Witness ==
  \E t \in Turns :
    /\ Completed(t)
    /\ \E k \in DOMAIN ToolSpans(t) :
         llmResponse[t].tool_calls[k].name \notin ToolNames

\* C8: when a chat stage fails, its span is the last the turn starts, the
\* agent span ends with status error, and the caller gets the generic
\* failure and nothing else.
C8_StageFailureAborts ==
  \A t \in Turns :
    \A i \in DOMAIN spans[t] :
      (IsChat(spans[t][i]) /\ spans[t][i].status = "error") =>
        /\ i = Len(spans[t])
        /\ pc[t] = "done"
        /\ ~spans[t][1].open
        /\ spans[t][1].status = "error"
        /\ DOMAIN response[t] = {"status", "error"}
        /\ response[t].status = 500
        /\ response[t].error = "AI agent processing failed"

\* A turn that failed in the synthesis stage, with tokens and a tool already
\* accounted.
C8_Witness ==
  \E t \in Turns :
    /\ Failed(t)
    /\ totalTokens[t] > 0
    /\ toolsUsed[t] # <<>>
    /\ IsSynthesis(spans[t][Len(spans[t])])

\* C9: a completed turn has a synthesis span exactly when toolsUsed is not
\* empty, and then returns the synthesis message; without one it returns the
\* reasoning draft and the reasoning tokens only.
C9_SynthesisIffToolsUsed ==
  \A t \in Turns :
    Completed(t) =>
      LET sp == spans[t]
          syn == { i \in DOMAIN sp : IsSynthesis(sp[i]) }
      IN  /\ (syn # {}) <=> (response[t].toolsUsed # <<>>)
          /\ \A i \in syn : response[t].message = sp[i].attrs.response_text
          /\ syn = {} =>
               /\ response[t].message = sp[2].attrs.response_text
               /\ response[t].message = llmResponse[t].content
               /\ response[t].totalTokens = sp[2].attrs.total_tokens

\* A completed turn whose requested tools all failed.
C9_Witness ==
  \E t \in Turns :
    /\ Completed(t)
    /\ ToolSpans(t) # <<>>
    /\ response[t].toolsUsed = <<>>

C11_RefundResolves ==
  \A t \in Turns :
    (Completed(t) /\ "process_refund" \in Range(response[t].toolsUsed)) =>
      /\ response[t].resolutionStatus = "resolved"
      /\ spans[t][1].attrs.resolution_status = "resolved"

\* The number of the first rule a turn's message matches (0: none, or no
\* message), and whether the reasoning stage has answered.
FirstRule(t) ==
  IF message[t].defined THEN MatchedRule(toLowerCase(message[t].toks)) ELSE 0

Reasoned(t) == pc[t] \in {"dispatch", "tool", "synthesis", "resolution"} \/ Completed(t)

\* C12: for a message whose first matching rule is the create_ticket rule,
\* the reasoning stage requests create_ticket alone, the turn runs it in
\* exactly one execute_tool span, and when it succeeded the completed turn
\* has resolution status escalated, on the agent span and in the outcome,
\* whatever the final message says.
C12_ScenarioEscalate ==
  \A t \in Turns :
    (FirstRule(t) = 7 /\ Reasoned(t)) =>
      /\ Len(llmResponse[t].tool_calls) = 1
      /\ llmResponse[t].tool_calls[1].name = "create_ticket"
      /\ Len(ToolSpans(t)) <= 1
      /\ \A k \in DOMAIN ToolSpans(t) : ToolSpans(t)[k].attrs.tool_name = "create_ticket"
      /\ Completed(t) =>
           /\ Len(ToolSpans(t)) = 1
           /\ ToolSpans(t)[1].status = "ok" =>
                /\ response[t].toolsUsed = <<"create_ticket">>
                /\ response[t].resolutionStatus = "escalated"
                /\ spans[t][1].attrs.resolution_status = "escalated"

\* A completed turn for an escalation message in which create_ticket
\* succeeded and whose final message says resolved.
C12_Witness ==
  \E t \in Turns :
    /\ FirstRule(t) = 7
    /\ Completed(t)
    /\ response[t].toolsUsed = <<"create_ticket">>
    /\ SaysResolved(response[t].message)
    /\ response[t].resolutionStatus = "escalated"

\* The tool loop of a turn is over.
ToolsDone(t) == pc[t] \in {"synthesis", "resolution"} \/ Completed(t)

\* C13: for a message whose first matching rule is the check_order_status
\* rule, the turn starts exactly one execute_tool span, for
\* check_order_status, with a non-empty order.id attribute; toolsUsed is
\* [check_order_status], and the completed turn has resolution status
\* answered whichever lead-in sentence the synthesis stage draws.
C13_ScenarioOrderStatus ==
  \A t \in Turns :
    (FirstRule(t) = 5 /\ Reasoned(t)) =>
      LET ts == ToolSpans(t)
      IN  /\ Len(ts) <= 1
          /\ \A k \in DOMAIN ts : ts[k].attrs.tool_name = "check_order_status"
          /\ ToolsDone(t) =>
               /\ Len(ts) = 1
               /\ "order_id" \in DOMAIN ts[1].attrs
               /\ ts[1].attrs.order_id \notin {"", "undefined"}
               /\ toolsUsed[t] = <<"check_order_status">>
          /\ Completed(t) =>
               /\ response[t].toolsUsed = <<"check_order_status">>
               /\ response[t].resolutionStatus = "answered"
               /\ spans[t][1].attrs.resolution_status = "answered"

\* The turn for "Where is my order?" completed with the last of the four
\* lead-in sentences.
C13_Witness ==
  \E t \in Turns :
    /\ message[t] = StringMessage({"Where", "my", "order"})
    /\ FirstRule(t) = 5
    /\ Completed(t)
    /\ response[t].message[1] = "Thank you for waiting. I have the information you requested:"

\* C14: for a message that matches none of the seven rules, the reasoning
\* stage requests no tool, the turn has no execute_tool span and no synthesis
\* span, the reasoning span is the one chat child of the agent span,
\* toolsUsed is empty and totalTokens is the reasoning span's token count.
C14_ScenarioNoTool ==
  \A t \in Turns :
    (message[t].defined /\ FirstRule(t) = 0 /\ Reasoned(t)) =>
      LET sp == spans[t]
      IN  /\ ~llmResponse[t].has_tool_calls
          /\ ToolSpans(t) = <<>>
          /\ toolsUsed[t] = <<>>
          /\ ~ \E i \in DOMAIN sp : IsSynthesis(sp[i])
          /\ { i \in DOMAIN sp : IsChat(sp[i]) /\ sp[i].parent = 1 } = {2}
          /\ IsReasoning(sp[2])
          /\ totalTokens[t] = sp[2].attrs.total_tokens
          /\ Completed(t) =>
               /\ Len(sp) = 2
               /\ response[t].toolsUsed = <<>>
               /\ response[t].totalTokens = sp[2].attrs.total_tokens
               /\ sp[1].attrs.total_tokens = sp[2].attrs.total_tokens
               /\ sp[1].attrs.tools_used_count = 0

\* The turn for "Hi" completed.
C14_Witness ==
  \E t \in Turns :
    /\ message[t] = StringMessage({"Hi"})
    /\ FirstRule(t) = 0
    /\ Completed(t)
    /\ response[t].totalTokens > 0

\* C15: the reasoning stage answers every message with no tool call
\* (tool_calls undefined) when no rule matches and with exactly one tool call
\* otherwise, and a turn never starts more than one execute_tool span.
C15_AtMostOneToolCall ==
  \A t \in Turns :
    /\ Len(ToolSpans(t)) <= 1
    /\ Len(toolsUsed[t]) <= 1
    /\ Reasoned(t) =>
         IF MatchingRules(message[t]) = {}
         THEN ~llmResponse[t].has_tool_calls /\ llmResponse[t].tool_calls = <<>>
         ELSE llmResponse[t].has_tool_calls /\ Len(llmResponse[t].tool_calls) = 1

\* A completed turn whose one requested tool ran in one execute_tool span.
C15_Witness ==
  \E t \in Turns :
    /\ Completed(t)
    /\ MatchingRules(message[t]) # {}
    /\ Len(llmResponse[t].tool_calls) = 1
    /\ Len(ToolSpans(t)) = 1
    /\ ~ToolSpans(t)[1].open

\* The positions in spans[t] of the turn's execute_tool spans.
ToolSpanIds(t) == { i \in DOMAIN spans[t] : IsTool(spans[t][i]) }

\* C16: the tools of a turn run one at a time, in the order the reasoning
\* stage requested them: at most one execute_tool span is open at any
\* moment, the k-th span started is the span of the k-th requested call, and
\* a tool span has ended before the next one is started.
C16_ToolsSequential ==
  \A t \in Turns :
    LET ts == ToolSpans(t)
        calls == llmResponse[t].tool_calls
    IN  /\ Cardinality({ i \in ToolSpanIds(t) : spans[t][i].open }) <= 1
        /\ Len(ts) <= Len(calls)
        /\ \A k \in DOMAIN ts :
             /\ ts[k].attrs.tool_name = calls[k].name
             /\ ts[k].attrs.tool_input = calls[k].arguments
        /\ \A i, j \in ToolSpanIds(t) :
             i < j => /\ ~spans[t][i].open
                      /\ 0 < Closed(t, i)
                      /\ Closed(t, i) < Opened(t, j)

\* The second of two different requested tools is running: its span is
\* open, the span of the first has ended.
C16_Witness ==
  \E t \in Turns :
    /\ pc[t] = "tool"
    /\ Len(ToolSpans(t)) = 2
    /\ ~ToolSpans(t)[1].open
    /\ ToolSpans(t)[2].open
    /\ llmResponse[t].tool_calls[1].name # llmResponse[t].tool_calls[2].name

\* The outcomes POST returns when the request runs alone: the stages composed
\* in program order, over every random draw.  First the turn after a given
\* reasoning response, then the turn for a message.
SoloAfterReasoning(llm) ==
  IF ~llm.has_tool_calls
  THEN { [ status |-> 200,
           message |-> llm.content,
           totalTokens |-> llm.total_tokens,
           toolsUsed |-> <<>>,
           resolutionStatus |-> DetermineResolution(<<>>, llm.content) ] }
  ELSE { [ status |-> 200,
           message |-> syn.message,
           totalTokens |-> llm.total_tokens + toolTokens + syn.total_tokens,
           toolsUsed |-> <<llm.tool_calls[1].name>>,
           resolutionStatus |->
             DetermineResolution(<<llm.tool_calls[1].name>>, syn.message) ]
         : toolTokens \in { TokenBase(llm.tool_calls[1].name) + rt :
                              rt \in Draw(TokenSpread(llm.tool_calls[1].name)) },
           syn \in { synthesizeResponse(<<llm.tool_calls[1].name>>, i, rs) :
                       i \in DrawIndex, rs \in Draw(50) } }

SoloOutcomes(m) ==
  UNION { SoloAfterReasoning(llm) :
            llm \in { generateMockLLMResponse(m, <<>>, r, rp, rc) :
                        r \in DrawIndex, rp \in Draw(100), rc \in Draw(80) } }

\* The names of the turn's own execute_tool spans that ended ok, in order.
OkToolNames(t) ==
  LET ok == SelectSeq(ToolSpans(t), LAMBDA s : ~s.open /\ s.status = "ok")
  IN  [ k \in 1 .. Len(ok) |-> ok[k].attrs.tool_name ]

\* C17: with two requests in flight, each turn's locals are what its own
\* stages produced: toolsUsed holds the names of its own tool spans that
\* ended ok, totalTokens is the sum over its own child spans, a turn that
\* has not started is untouched, and a completed turn returns an outcome the
\* same request returns when it runs alone.
C17_TurnsIndependent ==
  \A t \in Turns :
    /\ toolsUsed[t] = OkToolNames(t)
    /\ totalTokens[t] = ChildTokens(spans[t], Len(spans[t]))
    /\ pc[t] = "start" =>
         /\ spans[t] = <<>> /\ trace[t] = <<>> /\ toolResults[t] = <<>>
         /\ finalResponse[t] = <<>> /\ resolutionStatus[t] = "in_progress"
         /\ llmResponse[t] = NoLLMResponse /\ response[t] = NoResponse
    /\ Completed(t) =>
         /\ response[t] \in SoloOutcomes(message[t])
         /\ response[t].message = finalResponse[t]
         /\ response[t].resolutionStatus = resolutionStatus[t]
         /\ response[t].toolsUsed = toolsUsed[t]
         /\ response[t].totalTokens = totalTokens[t]

\* Both requests are in flight, suspended at different awaits: one in its
\* synthesis delay with its tool accounted, the other in its tool's delay.
C17_Witness ==
  /\ pc["A"] = "synthesis"
  /\ pc["B"] = "tool"
  /\ toolsUsed["A"] # <<>>
  /\ toolsUsed["B"] = <<>>
  /\ totalTokens["A"] > totalTokens["B"]

C19_ErrorAttributes ==
  \A t \in Turns :
    Failed(t) =>
      /\ \A i \in DOMAIN spans[t] :
           ( (IsAgent(spans[t][i]) \/ IsTool(spans[t][i]))
             /\ ~spans[t][i].open /\ spans[t][i].status = "error" ) =>
             {"error_type", "error_message"} \subseteq DOMAIN spans[t][i].attrs
      /\ response[t] = FailureResponse

\* C20: POST rejects a request without a valid message before it starts any
\* span: such a turn has no invoke_agent span and no chat span.
C20_InvalidRequestOpensNoSpan ==
  \A t \in Turns :
    ~message[t].defined => spans[t] = <<>>

\* The stages of POST in program order; the tool loop is one stage.
StageRank(p) ==
  CASE p = "start" -> 0
    [] p = "reasoning" -> 1
    [] p = "dispatch" -> 2
    [] p = "tool" -> 2
    [] p = "synthesis" -> 3
    [] p = "resolution" -> 4
    [] p = "done" -> 5
    [] OTHER -> 6

\* The steps the stage order allows from one position of the handler.
StageSuccessors(p) ==
  CASE p = "start" -> {"reasoning"}
    [] p = "reasoning" -> {"dispatch", "done"}
    [] p = "dispatch" -> {"tool", "synthesis", "done"}
    [] p = "tool" -> {"dispatch"}
    [] p = "synthesis" -> {"resolution", "done"}
    [] p = "resolution" -> {"done"}
    [] OTHER -> {}

\* What one step does to a turn: the turn stays where it is with its result
\* as it was, or moves to an allowed later position; each requested tool
\* call is dispatched once; the result is returned by the step that reaches
\* done, once, and is the outcome or the generic failure.
StageStep(t) ==
  IF pc'[t] = pc[t]
  THEN response'[t] = response[t] /\ toolIdx'[t] = toolIdx[t]
  ELSE /\ pc'[t] \in StageSuccessors(pc[t])
       /\ StageRank(pc'[t]) >= StageRank(pc[t])
       /\ toolIdx'[t] = (IF pc[t] = "tool" THEN toolIdx[t] + 1
                         ELSE IF pc[t] = "reasoning" THEN 1 ELSE toolIdx[t])
       /\ IF pc'[t] = "done"
          THEN /\ response[t] = NoResponse
               /\ \/ response'[t] = FailureResponse
                  \/ /\ response'[t].status = 200
                     /\ DOMAIN response'[t] =
                          {"status", "message", "totalTokens", "toolsUsed", "resolutionStatus"}
          ELSE response'[t] = NoResponse /\ response[t] = NoResponse

\* C21: every turn goes through start, reasoning, the tool loop, the optional
\* synthesis, resolution and done in that order without going back, returns
\* exactly once, the outcome or the generic failure, retries nothing, and,
\* the delays elapsing, does reach done.
C21_TurnTerminates ==
  /\ [][\A t \in Turns : StageStep(t)]_vars
  /\ \A t \in Turns : (pc[t] = "start") ~> (pc[t] = "done" /\ response[t] # NoResponse)

\* A turn that reached done through every stage: reasoning, a tool, synthesis
\* and resolution.
C21_Witness ==
  \E t \in Turns :
    /\ pc[t] = "done"
    /\ Completed(t)
    /\ Len(ToolSpans(t)) = 1
    /\ \E i \in DOMAIN spans[t] : IsSynthesis(spans[t][i])

\* The priority list of the follow-up texts, and the text of each name.
FollowUpPriority ==
  << "check_order_status", "get_account_info", "process_refund", "check_inventory",
     "schedule_callback", "search_knowledge_base", "create_ticket" >>

FollowUpText ==
  << "followup: Your order is on its way!",
     "followup: I've retrieved your account information.",
     "followup: Your refund has been initiated successfully!",
     "followup: I've checked our inventory for that item.",
     "followup: Your callback has been scheduled successfully!",
     "followup: I've found the relevant policy information for you.",
     "followup: I've created a priority ticket for your issue" >>

GenericCloser == "followup: I hope this information helps!"

\* C22: the follow-up of the synthesis message is the text of the first name
\* of the priority list that occurs in toolsUsed, whatever the order of
\* toolsUsed (every array with the same names gets the same follow-up), and
\* it is the generic closer exactly when toolsUsed holds none of the names.
C22_FollowUpPriority ==
  \A t \in Turns :
    pc[t] = "synthesized" =>
      LET used == toolsUsed[t]
          present == { k \in 1 .. 7 : FollowUpPriority[k] \in Range(used) }
          followUp == finalResponse[t][2]
      IN  /\ Len(finalResponse[t]) = 2
          /\ (followUp = GenericCloser) <=> (present = {})
          /\ \A k \in present : (\A j \in present : k <= j) => followUp = FollowUpText[k]
          /\ \A other \in FollowUpInputs :
               Range(other) = Range(used) => generateFollowUpResponse(other) = followUp

\* The synthesis message for a toolsUsed array in which create_ticket was
\* invoked before check_order_status.
C22_Witness ==
  \E t \in Turns :
    /\ pc[t] = "synthesized"
    /\ toolsUsed[t] = <<"create_ticket", "check_order_status">>
    /\ finalResponse[t][2] = "followup: Your order is on its way!"

\* The inclusive token envelope of each tool, as the policy table gives it.
TokenEnvelope(name) ==
  CASE name = "search_knowledge_base" -> 25 .. 40
    [] name = "check_order_status" -> 20 .. 30
    [] name = "get_account_info" -> 30 .. 50
    [] name = "process_refund" -> 35 .. 50
    [] name = "check_inventory" -> 25 .. 40
    [] name = "schedule_callback" -> 20 .. 30
    [] name = "create_ticket" -> 15 .. 25
    [] OTHER -> {}

\* C23: the token count set on the span of a tool that ran successfully lies
\* in the tool's envelope, and it is the amount the tool added to
\* totalTokens.
C23_TokenEnvelopes ==
  \A t \in Turns :
    \A i \in ToolSpanIds(t) :
      (~spans[t][i].open /\ spans[t][i].status = "ok") =>
        /\ "total_tokens" \in DOMAIN spans[t][i].attrs
        /\ spans[t][i].attrs.total_tokens \in TokenEnvelope(spans[t][i].attrs.tool_name)
        /\ (pc[t] = "dispatch" /\ i = Len(spans[t])) =>
             totalTokens[t] = ChildTokens(spans[t], i - 1) + spans[t][i].attrs.total_tokens

\* search_knowledge_base just ran with the largest token count it can draw.
C23_Witness ==
  \E t \in Turns :
    /\ pc[t] = "dispatch"
    /\ Len(ToolSpans(t)) = 1
    /\ ToolSpans(t)[1].attrs.tool_name = "search_knowledge_base"
    /\ ToolSpans(t)[1].status = "ok"
    /\ ToolSpans(t)[1].attrs.total_tokens = 39

\* C24: on a completed turn the cost estimate of the agent span, counted in
\* ten-thousandths of a dollar, is totalTokens (0.0001 USD a token), the same
\* totalTokens that is set on the span and returned.
C24_CostEstimate ==
  \A t \in Turns :
    Completed(t) =>
      LET cost == spans[t][1].attrs.cost_estimate_usd
      IN  /\ cost[2] \in 0 .. 9999
          /\ cost[1] * 10000 + cost[2] = response[t].totalTokens
          /\ spans[t][1].attrs.total_tokens = response[t].totalTokens
          /\ totalTokens[t] = response[t].totalTokens

\* A completed turn whose total is not a whole number of cents.
C24_Witness ==
  \E t \in Turns :
    /\ Completed(t)
    /\ response[t].totalTokens % 100 # 0
    /\ spans[t][1].attrs.cost_estimate_usd = <<0, response[t].totalTokens>>

\* The trigger keywords the tools guide lists for the tool of each rule.
GuideTriggerKeywords ==
  << {"process refund", "start refund", "i want a refund", "give me a refund"},
     {"inventory", "in stock", "available", "availability", "check stock"},
     {"callback", "call me back", "call me", "schedule call", "phone me"},
     {"account", "profile", "membership", "my info"},
     {"order status", "track", "tracking", "shipment", "where is my order"},
     {"return", "exchange", "policy", "how to return"},
     {"escalate", "manager", "supervisor", "ticket", "complex", "speak to"} >>

\* C25: a message that contains a trigger keyword the guide lists for a tool
\* and matches no rule of higher priority gets a tool call to exactly that
\* tool.
C25_GuideKeywordsTrigger ==
  \A t \in Turns :
    pc[t] = "decided" =>
      LET lm == toLowerCase(message[t].toks)
      IN  \A k \in 1 .. 7 :
            ( (\E kw \in GuideTriggerKeywords[k] : includes(lm, kw))
              /\ \A j \in 1 .. (k - 1) : ~RuleMatches(j, lm) ) =>
              /\ llmResponse[t].has_tool_calls
              /\ Len(llmResponse[t].tool_calls) = 1
              /\ llmResponse[t].tool_calls[1].name = RuleTool[k]

\* C27: the toolsUsed a completed turn returns lists exactly the tool calls
\* that succeeded, in dispatch order; a failed or unknown tool has neither
\* output nor token attribute on its span and adds nothing to totalTokens;
\* the agent span's tools_used_count is the length of toolsUsed.
C27_ToolsUsedAreSuccesses ==
  \A t \in Turns :
    Completed(t) =>
      LET ts == ToolSpans(t)
          calls == llmResponse[t].tool_calls
          okCalls == SelectSeq([k \in DOMAIN ts |-> [name |-> calls[k].name, ok |-> ts[k].status = "ok"]],
                               LAMBDA c : c.ok)
      IN  /\ Len(ts) = Len(calls)
          /\ response[t].toolsUsed = [k \in 1 .. Len(okCalls) |-> okCalls[k].name]
          /\ \A k \in DOMAIN ts :
               ts[k].status # "ok" =>
                 /\ ts[k].status = "error"
                 /\ "tool_output" \notin DOMAIN ts[k].attrs
                 /\ "total_tokens" \notin DOMAIN ts[k].attrs
          /\ response[t].totalTokens = ChildTokens(spans[t], Len(spans[t]))
          /\ spans[t][1].attrs.tools_used_count = Len(response[t].toolsUsed)
          /\ spans[t][1].attrs.tools_used = response[t].toolsUsed

\* A completed turn whose first tool succeeded and whose second, a different
\* one, failed.
C27_Witness ==
  \E t \in Turns :
    /\ Completed(t)
    /\ Len(ToolSpans(t)) = 2
    /\ ToolSpans(t)[1].status = "ok"
    /\ ToolSpans(t)[2].status = "error"
    /\ response[t].toolsUsed = <<llmResponse[t].tool_calls[1].name>>
    /\ llmResponse[t].tool_calls[1].name # llmResponse[t].tool_calls[2].name

\* C30: the reasoning stage's tool decision depends on the message alone: two
\* turns with the same message but different histories, session ids and
\* random draws request the same tool with the same arguments, or both
\* request none; when a tool is requested the draft text is the same too.
C30_DecisionDeterministic ==
  \A t \in Turns, u \in Turns :
    (pc[t] = "decided" /\ pc[u] = "decided" /\ message[t] = message[u])
      => LET a == llmResponse[t]
             b == llmResponse[u]
         IN  /\ a.has_tool_calls = b.has_tool_calls
             /\ a.tool_calls = b.tool_calls
             /\ a.has_tool_calls => a.content = b.content

\* Two turns with one message, different histories and session ids and
\* different token draws have both asked for the same tool.
C30_Witness ==
  /\ pc["A"] = "decided" /\ pc["B"] = "decided"
  /\ message["A"] = message["B"]
  /\ request["A"].conversationHistory # request["B"].conversationHistory
  /\ request["A"].sessionId # request["B"].sessionId
  /\ llmResponse["A"].prompt_tokens # llmResponse["B"].prompt_tokens
  /\ llmResponse["A"].has_tool_calls
  /\ llmResponse["A"].tool_calls
       = llmResponse["B"].tool_calls

\* ------------------------------------------------------------ the chat page

\* The most turns a session of the page is followed for.
MaxTurns == 3

\* What the user can type into the input: nothing, blanks, or a message.
ClientInputs == {"", "   ", "Hi", "Where is my order?"}

\* String.prototype.trim
trim(s) == IF s \in {"", "   "} THEN "" ELSE s

\* The bodies an OK response of /api/ai/chat can carry.
AIResponses ==
  { [message |-> "Hello! Welcome to customer support. How can I assist you today?",
     responseId |-> "resp_1", totalTokens |-> 70, toolsUsed |-> <<>>,
     resolutionStatus |-> "answered"],
    [message |-> "Based on the information I found, here's what I can tell you: Your order is being processed.",
     responseId |-> "resp_2", totalTokens |-> 155,
     toolsUsed |-> <<"check_order_status">>, resolutionStatus |-> "resolved"] }

\* What makes the try block throw: a response that is not OK (new Error) or a
\* fetch that rejects (TypeError).
FetchErrors == {"Error", "TypeError"}

UserMessage(text) == [role |-> "user", content |-> text]
AssistantMessage(text) == [role |-> "assistant", content |-> text]

\* s without its k-th element.
RemoveAt(s, k) == [i \in 1 .. Len(s) - 1 |-> IF i < k THEN s[i] ELSE s[i + 1]]

\* The input's onChange; the input is disabled while isLoading.
TypeMessage(text) ==
  /\ ~isLoading
  /\ currentMessage' = text
  /\ UNCHANGED << conversationHistory, isLoading, error, clientSpans, pending >>

\* handleSendMessage(userMessage) up to its await of fetch: the span is
\* started with the attributes computed from the rendered state, the page is
\* set loading, the user message is appended, and the request is sent with
\* the rendered history.
handleSendMessage(userMessage) ==
  IF trim(userMessage) = ""
  THEN UNCHANGED << conversationHistory, isLoading, error, clientSpans, pending >>
  ELSE /\ clientSpans' =
            OpenSpan(clientSpans, "invoke_agent",
                     [ request_messages |->
                         Append(conversationHistory, UserMessage(userMessage)),
                       turn |-> Len(conversationHistory) + 1 ])
       /\ isLoading' = TRUE
       /\ error' = "null"
       /\ conversationHistory' =
            Append(conversationHistory, UserMessage(userMessage))
       /\ pending' =
            Append(pending, [ span |-> Len(clientSpans) + 1,
                              message |-> userMessage,
                              conversationHistory |-> conversationHistory ])

\* The form's onSubmit.
handleSubmit ==
  /\ Len(clientSpans) < MaxTurns
  /\ IF trim(currentMessage) # "" /\ ~isLoading
     THEN /\ handleSendMessage(currentMessage)
          /\ currentMessage' = ""
     ELSE UNCHANGED clientVars

\* Mutant: the assistant message is appended to the history the call was
\* rendered with.
FetchResolves_RenderedHistory(k, aiResponse) ==
  /\ k \in DOMAIN pending
  /\ clientSpans' =
       EndSpan(SetAttributes(clientSpans, pending[k].span,
                             [ response_text |-> aiResponse.message,
                               response_id |-> aiResponse.responseId,
                               total_tokens |-> aiResponse.totalTokens,
                               tools_used |-> Len(aiResponse.toolsUsed),
                               resolution_status |-> aiResponse.resolutionStatus ]),
               pending[k].span, FALSE)
  /\ conversationHistory' =
       Append(pending[k].conversationHistory, AssistantMessage(aiResponse.message))
  /\ isLoading' = FALSE
  /\ pending' = RemoveAt(pending, k)
  /\ UNCHANGED << currentMessage, error >>

\* handleSendMessage after an OK response: the response attributes are set,
\* the assistant message is appended, and finally isLoading is reset.
FetchResolves(k, aiResponse) ==
  /\ k \in DOMAIN pending
  /\ clientSpans' =
       EndSpan(SetAttributes(clientSpans, pending[k].span,
                             [ response_text |-> aiResponse.message,
                               response_id |-> aiResponse.responseId,
                               total_tokens |-> aiResponse.totalTokens,
                               tools_used |-> Len(aiResponse.toolsUsed),
                               resolution_status |-> aiResponse.resolutionStatus ]),
               pending[k].span, FALSE)
  /\ conversationHistory' =
       Append(conversationHistory, AssistantMessage(aiResponse.message))
  /\ isLoading' = FALSE
  /\ pending' = RemoveAt(pending, k)
  /\ UNCHANGED << currentMessage, error >>

\* Mutant: the catch block is the last thing to run.
FetchFails_NoFinally(k, errorType) ==
  /\ k \in DOMAIN pending
  /\ clientSpans' =
       EndSpan(SetAttributes(SetStatus(clientSpans, pending[k].span, "error"),
                             pending[k].span, [ error_type |-> errorType ]),
               pending[k].span, FALSE)
  /\ error' = "Failed to get AI response. Please try again."
  /\ pending' = RemoveAt(pending, k)
  /\ UNCHANGED << conversationHistory, currentMessage, isLoading >>

\* handleSendMessage after a rejected fetch or a response that is not OK: the
\* catch block marks the span and sets the error, and finally isLoading is
\* reset; the callback returns normally.
FetchFails(k, errorType) ==
  /\ k \in DOMAIN pending
  /\ clientSpans' =
       EndSpan(SetAttributes(SetStatus(clientSpans, pending[k].span, "error"),
                             pending[k].span, [ error_type |-> errorType ]),
               pending[k].span, FALSE)
  /\ error' = "Failed to get AI response. Please try again."
  /\ isLoading' = FALSE
  /\ pending' = RemoveAt(pending, k)
  /\ UNCHANGED << conversationHistory, currentMessage >>

\* The page is open and no request has reached the server.
InitClient ==
  /\ pc = [t \in Turns |-> "absent"]
  /\ message = [t \in Turns |-> UndefinedMessage]
  /\ llmResponse = [t \in Turns |-> NoLLMResponse]
  /\ toolIdx = [t \in Turns |-> 1]
  /\ totalTokens = [t \in Turns |-> 0]
  /\ toolsUsed = [t \in Turns |-> <<>>]
  /\ finalResponse = [t \in Turns |-> <<>>]
  /\ resolutionStatus = [t \in Turns |-> "in_progress"]
  /\ spans = [t \in Turns |-> <<>>]
  /\ trace = [t \in Turns |-> <<>>]
  /\ toolResults = [t \in Turns |-> <<>>]
  /\ response = [t \in Turns |-> NoResponse]
  /\ request = [t \in Turns |-> FirstRequest]
  /\ ClientInit

\* A step of the page leaves the server's requests as they are.
ClientFrame ==
  UNCHANGED << pc, message, llmResponse, toolIdx, totalTokens, toolsUsed,
               finalResponse, resolutionStatus, spans, trace, toolResults,
               response, request >>

NextClient ==
  /\ \/ \E text \in ClientInputs : TypeMessage(text)
     \/ handleSubmit
     \/ \E k \in DOMAIN pending, aiResponse \in AIResponses :
          FetchResolves(k, aiResponse)
     \/ \E k \in DOMAIN pending, errorType \in FetchErrors :
          FetchFails(k, errorType)
  /\ ClientFrame

SpecClient == InitClient /\ [][NextClient]_vars

\* s is an initial part of t.
IsPrefix(s, t) == Len(s) <= Len(t) /\ SubSeq(t, 1, Len(s)) = s

\* What the turns started so far have contributed to the conversation: each
\* its user message and, once it has succeeded, the assistant's message.
RECURSIVE TurnLog(_)
TurnLog(sp) ==
  IF sp = <<>> THEN <<>>
  ELSE LET last == sp[Len(sp)]
           sent == last.attrs.request_messages
       IN  TurnLog(SubSeq(sp, 1, Len(sp) - 1))
             \o << sent[Len(sent)] >>
             \o (IF ~last.open /\ last.status = "ok"
                 THEN << AssistantMessage(last.attrs.response_text) >>
                 ELSE <<>>)

\* C26: the page's conversation history is append-only: every step leaves the
\* earlier history as a prefix of the later one, and the history is exactly
\* the turns in order, a successful turn contributing the user message and
\* then the assistant message, a failed turn only the user message.
C26_HistoryAppendOnly ==
  /\ [](conversationHistory = TurnLog(clientSpans))
  /\ [][IsPrefix(conversationHistory, conversationHistory')]_vars

\* A successful turn, a failed turn and another successful turn have left
\* five messages.
C26_Witness ==
  /\ pending = <<>>
  /\ Len(clientSpans) = 3
  /\ clientSpans[1].status = "ok"
  /\ clientSpans[2].status = "error"
  /\ clientSpans[3].status = "ok"
  /\ [i \in 1 .. 5 |-> conversationHistory[i].role]
       = << "user", "assistant", "user", "user", "assistant" >>

\* C28: at most one turn of the page is in flight: isLoading is true exactly
\* while a turn awaits its response, whichever way the turn ends; a step
\* starts a turn only when isLoading is false and the input is not blank.
C28_OneTurnInFlight ==
  /\ [](/\ Len(pending) <= 1
        /\ isLoading <=> pending # <<>>
        /\ Cardinality({ i \in DOMAIN clientSpans : clientSpans[i].open })
             = Len(pending))
  /\ [][Len(clientSpans') > Len(clientSpans)
          => ~isLoading /\ trim(currentMessage) # ""]_vars

\* Turns have ended by an OK response, by a response that was not OK and by
\* a rejected fetch, and the page is idle again.
C28_Witness ==
  /\ ~isLoading
  /\ pending = <<>>
  /\ \E i, j, k \in DOMAIN clientSpans :
       /\ clientSpans[i].status = "ok"
       /\ clientSpans[j].status = "error" /\ clientSpans[j].attrs.error_type = "Error"
       /\ clientSpans[k].status = "error" /\ clientSpans[k].attrs.error_type = "TypeError"

\* C29: conversation.turn on the page's agent span numbers the turns: the
\* n-th message submitted carries conversation.turn = n.
C29_TurnNumbersMessages ==
  \A n \in DOMAIN clientSpans : clientSpans[n].attrs.turn = n

====
